---- MODULE Spec2Model ----
(***************************************************************************)
(* A model of the gtfs-parser crate: the scalar codecs of gtfs_serde.rs,   *)
(* the archive index and table decoder of GtfsReader (lib.rs) and the      *)
(* relational linker (GtfsReader::trips, Trip::create_trips).              *)
(*                                                                         *)
(* Text is modelled as a sequence of bytes (naturals below 256), so that   *)
(* the byte-order-mark handling, the tokenizer and the codecs work on the  *)
(* same values the code works on.                                          *)
(***************************************************************************)
EXTENDS Integers, Sequences, FiniteSets, TLC

VARIABLES
    \* ---- the decoding session (GtfsReader) ----
    archive,          \* the zip container: a sequence of entries [name, content]
    corrupt,          \* TRUE when the container itself is malformed
    session,          \* "unopened" | "open" | "failed" | "aborted"
    file_mappings,    \* GtfsReader.file_mappings: logical name -> entry index
    reads,            \* entry indices read by read_objects in the last call, in order
    call,             \* the last call made on the session
    result,           \* what that call returned
    stream,           \* the byte stream the last read handed to the tokenizer
    \* ---- the relational linker ----
    raw_trips,        \* outcome of reading trips.txt
    raw_stop_times,   \* outcome of reading stop_times.txt
    stops,            \* outcome of reading stops.txt
    linked,           \* result of the last linking call
    \* ---- the scalar codecs ----
    text,             \* the text handed to a decoder
    value,            \* the value handed to an encoder or to a mapping builder
    decoded,          \* the last decoder result
    encoded           \* the last encoder result

sessionVars == <<archive, corrupt, session, file_mappings, reads, call, result, stream>>
linkVars    == <<raw_trips, raw_stop_times, stops, linked>>
codecVars   == <<text, value, decoded, encoded>>
vars        == <<sessionVars, linkVars, codecVars>>

(***************************************************************************)
(* Results and errors (error.rs).                                          *)
(***************************************************************************)
Ok(v)  == [kind |-> "Ok", value |-> v]
Err(e) == [kind |-> "Err", error |-> e]
\* A call that has not been made.
NoResult == [kind |-> "None"]
\* Option::unwrap on None, or any other abort of the calling thread.
Panic == [kind |-> "Panic"]

\* Error::FileNotFound(String): the string is kept as the sequence of its parts.
FileNotFound(parts)  == [type |-> "FileNotFound", payload |-> parts]
ReferenceError(id)   == [type |-> "ReferenceError", payload |-> id]
InvalidTime(s)       == [type |-> "InvalidTime", payload |-> s]
InvalidColor(s)      == [type |-> "InvalidColor", payload |-> s]
FileReadError(name)  == [type |-> "FileReadError", filename |-> name]
ZipError             == [type |-> "Zip"]
\* serde::de::Error::custom(message): the message is kept as its parts, the
\* quoted text among them.
DeCustom(parts)      == [type |-> "Custom", message |-> parts]

\* Option<T>
None    == [some |-> FALSE]
Some(v) == [some |-> TRUE, value |-> v]

\* Error::CSVError { filename, source, line_in_error }
CSVError(name, source, line) ==
    [type |-> "CSVError", filename |-> name, source |-> source, line_in_error |-> line]
\* LineError { headers, values }
LineError(headers, values) == [headers |-> headers, values |-> values]

(***************************************************************************)
(* Helpers on sequences.                                                   *)
(***************************************************************************)
Range(s) == {s[i] : i \in DOMAIN s}

SeqsUpTo(S, n) == UNION {[1..k -> S] : k \in 0..n}

Max(S) == CHOOSE x \in S : \A y \in S : y <= x

\* Text literals used by the codecs, as bytes.
Str0 == <<48>>
Str1 == <<49>>

(***************************************************************************)
(* Scalar codecs (gtfs_serde.rs).                                          *)
(***************************************************************************)
\* Rendering of an unsigned integer by the serializer (serialize_u8 and
\* format!("{}", n)): its decimal digits, most significant first.
RECURSIVE DecimalText(_)
DecimalText(n) ==
    IF n < 10 THEN <<48 + n>>
    ELSE Append(DecimalText(n \div 10), 48 + (n % 10))

serialize_u8(n) == Ok(DecimalText(n))

\* A decoder that also takes " 1", "true" and the like for a boolean.
deserialize_bool_lenient(s) ==
    IF s = Str0 THEN Ok(FALSE)
    ELSE IF s = Str1 \/ (Len(s) > 1 /\ s[Len(s)] = 49) THEN Ok(TRUE)
    ELSE Err(DeCustom([prefix |-> "Invalid value ", text |-> s, suffix |-> ", expected 0 or 1"]))

deserialize_bool(s) ==
    IF s = Str0 THEN Ok(FALSE)
    ELSE IF s = Str1 THEN Ok(TRUE)
    ELSE Err(DeCustom([prefix |-> "Invalid value ", text |-> s, suffix |-> ", expected 0 or 1"]))

serialize_bool(v) == IF v THEN serialize_u8(1) ELSE serialize_u8(0)

(***************************************************************************)
(* Archive index (GtfsReader::from_reader).  An archive entry is           *)
(* [name, content, readable]: name is the entry path as the sequence of    *)
(* its components, content its bytes, readable whether by_index can open   *)
(* it.  Entry indices start at 0 as in the code: entry i is archive[i+1].  *)
(***************************************************************************)
DATASET_FILES ==
    { "agency.txt", "attributions.txt", "calendar.txt", "calendar_dates.txt",
      "fare_attributes.txt", "fare_rules.txt", "feed_info.txt", "frequencies.txt",
      "levels.txt", "pathways.txt", "routes.txt", "shapes.txt", "stop_times.txt",
      "stops.txt", "transfers.txt", "translations.txt", "trips.txt" }

BYTE_ORDER_MARK == <<239, 187, 191>>

\* Path::file_name: the terminal component of the path.
file_name(path) == IF path = <<>> THEN None ELSE Some(path[Len(path)])

EmptyMap == [k \in {} |-> 0]

\* A scan that keeps the first entry found for a logical name.
RECURSIVE scan_entries_first(_, _, _)
scan_entries_first(arch, index, mappings) ==
    IF index >= Len(arch) THEN Ok(mappings)
    ELSE IF ~arch[index + 1].readable THEN Err(ZipError)
    ELSE LET fname == file_name(arch[index + 1].name) IN
         IF fname.some /\ fname.value \in DATASET_FILES
           THEN scan_entries_first(arch, index + 1, mappings @@ (fname.value :> index))
           ELSE scan_entries_first(arch, index + 1, mappings)

\* The loop of from_reader from entry index on: an entry whose file name is a
\* dataset file is inserted under that name, replacing an earlier entry.
RECURSIVE scan_entries(_, _, _)
scan_entries(arch, index, mappings) ==
    IF index >= Len(arch) THEN Ok(mappings)
    ELSE IF ~arch[index + 1].readable THEN Err(ZipError)
    ELSE LET fname == file_name(arch[index + 1].name) IN
         IF fname.some /\ fname.value \in DATASET_FILES
           THEN scan_entries(arch, index + 1, (fname.value :> index) @@ mappings)
           ELSE scan_entries(arch, index + 1, mappings)

\* GtfsReader::from_reader: ZipArchive::new fails on a malformed container.
from_reader(arch, malformed) ==
    IF malformed THEN Err(ZipError) ELSE scan_entries(arch, 0, EmptyMap)

(***************************************************************************)
(* Table decoder (GtfsReader::read_objects).  The tokenizer is the csv     *)
(* reader in flexible mode: records end at a line feed, empty lines are    *)
(* skipped, fields are separated by commas, and a record that is not valid *)
(* UTF-8 is an error.  (Quoting is left out: no input holds a quote.)      *)
(***************************************************************************)
RECURSIVE SplitOn(_, _)
SplitOn(s, sep) ==
    IF \A i \in DOMAIN s : s[i] # sep THEN <<s>>
    ELSE LET i == CHOOSE i \in DOMAIN s : s[i] = sep /\ \A j \in 1..(i - 1) : s[j] # sep
         IN  <<SubSeq(s, 1, i - 1)>> \o SplitOn(SubSeq(s, i + 1, Len(s)), sep)

\* The records of a byte stream: its non-empty lines (split at 10, the line
\* feed), each split into fields at 44, the comma.
Records(bytes) ==
    LET NonEmpty(l) == l # <<>>
        lines == SelectSeq(SplitOn(bytes, 10), NonEmpty)
    IN  [i \in DOMAIN lines |-> SplitOn(lines[i], 44)]

\* UTF-8 validity of the bytes the inputs are made of: an ASCII byte stands
\* alone, 239 (0xEF) opens a three-byte sequence closed by two continuation
\* bytes (128..191), and any other byte in first position is invalid.
RECURSIVE Utf8Valid(_)
Utf8Valid(s) ==
    IF s = <<>> THEN TRUE
    ELSE IF s[1] < 128 THEN Utf8Valid(Tail(s))
    ELSE IF s[1] = 239
           THEN /\ Len(s) >= 3
                /\ s[2] \in 128..191
                /\ s[3] \in 128..191
                /\ Utf8Valid(SubSeq(s, 4, Len(s)))
    ELSE FALSE

\* StringRecord::from_byte_record
RecordValid(rec) == \A i \in DOMAIN rec : Utf8Valid(rec[i])

\* A field of the record type being decoded:
\*   [column, field, kind, default].  column is the header name (serde rename),
\*   field the name of the struct field, kind its type and codec, default
\*   Some(v) for #[serde(default)] and None otherwise.
DeError(what) == [type |-> "Deserialize", cause |-> what]

\* u16::from_str on a field: decimal digits only, at most 65535.
RECURSIVE DecimalValue(_)
DecimalValue(s) ==
    IF s = <<>> THEN 0 ELSE 10 * DecimalValue(SubSeq(s, 1, Len(s) - 1)) + (s[Len(s)] - 48)

parse_u16(s) ==
    IF s # <<>> /\ Len(s) <= 5 /\ (\A i \in DOMAIN s : s[i] \in 48..57) /\ DecimalValue(s) <= 65535
      THEN Ok(DecimalValue(s))
      ELSE Err(DeError("ParseInt"))

\* The value of one struct field read at position pos of the row: the
\* decoded value and the number of row fields consumed.
field_value(kind, row, pos) ==
    IF kind = "Option"
      THEN IF pos > Len(row) THEN [kind |-> "Ok", value |-> None, used |-> 0]
           ELSE IF row[pos] = <<>> THEN [kind |-> "Ok", value |-> None, used |-> 1]
           ELSE [kind |-> "Ok", value |-> Some(row[pos]), used |-> 1]
    ELSE IF pos > Len(row) THEN Err(DeError("UnexpectedEndOfRow"))
    ELSE LET got == CASE kind = "String" -> Ok(row[pos])
                      [] kind = "bool"   -> deserialize_bool(row[pos])
                      [] kind = "u16"    -> parse_u16(row[pos])
         IN  IF got.kind = "Err" THEN got
             ELSE [kind |-> "Ok", value |-> got.value, used |-> 1]

\* The end of visit_map: a struct field no header named takes its default, an
\* Option is None, and any other is a missing-field error.
finish_struct(shape, got) ==
    LET missing == {k \in DOMAIN shape : shape[k].field \notin DOMAIN got}
        required == {k \in missing : shape[k].kind # "Option" /\ ~shape[k].default.some}
        fill(k) == IF shape[k].default.some THEN shape[k].default.value ELSE None
    IN  IF required # {} THEN Err(DeError("missing field"))
        ELSE Ok([f \in {shape[k].field : k \in DOMAIN shape} |->
                   IF f \in DOMAIN got THEN got[f]
                   ELSE fill(CHOOSE k \in missing : shape[k].field = f)])

\* A visit_map that does not read the value of a key the struct does not
\* have, so that the next key sees it.
RECURSIVE visit_map_unskipped(_, _, _, _, _, _)
visit_map_unskipped(headers, row, shape, j, pos, got) ==
    IF j > Len(headers) THEN finish_struct(shape, got)
    ELSE LET ks == {k \in DOMAIN shape : shape[k].column = headers[j]} IN
         IF ks = {}
           THEN visit_map_unskipped(headers, row, shape, j + 1, pos, got)
         ELSE LET f == shape[CHOOSE k \in ks : TRUE] IN
              IF f.field \in DOMAIN got THEN Err(DeError("duplicate field"))
              ELSE LET v == field_value(f.kind, row, pos) IN
                   IF v.kind = "Err" THEN v
                   ELSE visit_map_unskipped(headers, row, shape, j + 1, pos + v.used,
                                            (f.field :> v.value) @@ got)

\* The derived visit_map over the map access of the row: one key per header,
\* in header order; the value of a key the struct does not have is read and
\* dropped, the value of a key it has is decoded into that field.
RECURSIVE visit_map(_, _, _, _, _, _)
visit_map(headers, row, shape, j, pos, got) ==
    IF j > Len(headers) THEN finish_struct(shape, got)
    ELSE LET ks == {k \in DOMAIN shape : shape[k].column = headers[j]} IN
         IF ks = {}
           THEN IF pos > Len(row) THEN Err(DeError("UnexpectedEndOfRow"))
                ELSE visit_map(headers, row, shape, j + 1, pos + 1, got)
         ELSE LET f == shape[CHOOSE k \in ks : TRUE] IN
              IF f.field \in DOMAIN got THEN Err(DeError("duplicate field"))
              ELSE LET v == field_value(f.kind, row, pos) IN
                   IF v.kind = "Err" THEN v
                   ELSE visit_map(headers, row, shape, j + 1, pos + v.used,
                                  (f.field :> v.value) @@ got)

\* StringRecord::deserialize(Some(&headers))
deserialize(row, headers, shape) == visit_map(headers, row, shape, 1, 1, EmptyMap)

\* What a call on the session did: its result, the entry indices it read and
\* the byte stream it handed to the tokenizer (None when it got to none).
Outcome(res, read, handed) == [result |-> res, reads |-> read, stream |-> handed]

\* A loop over the records that leaves a failing row out and goes on.
RECURSIVE read_records_skipping(_, _, _, _, _, _)
read_records_skipping(filename, headers, rows, shape, i, objects) ==
    IF i > Len(rows) THEN Ok(objects)
    ELSE IF ~RecordValid(rows[i])
           THEN read_records_skipping(filename, headers, rows, shape, i + 1, objects)
    ELSE LET obj == deserialize(rows[i], headers, shape) IN
         IF obj.kind = "Err"
           THEN read_records_skipping(filename, headers, rows, shape, i + 1, objects)
           ELSE read_records_skipping(filename, headers, rows, shape, i + 1,
                                      Append(objects, obj.value))

\* The loop of read_objects over reader.records(), from row i on: a row that
\* is not tokenized, or not decoded, ends the read with a CSVError.
RECURSIVE read_records(_, _, _, _, _, _)
read_records(filename, headers, rows, shape, i, objects) ==
    IF i > Len(rows) THEN Ok(objects)
    ELSE IF ~RecordValid(rows[i])
           THEN Err(CSVError(filename, [type |-> "Utf8"],
                             Some(LineError(headers, <<>>))))
    ELSE LET obj == deserialize(rows[i], headers, shape) IN
         IF obj.kind = "Err"
           THEN Err(CSVError(filename, obj.error, Some(LineError(headers, rows[i]))))
           ELSE read_records(filename, headers, rows, shape, i + 1,
                             Append(objects, obj.value))

\* The three bytes read_exact took and the rest of the entry, chained again
\* unless the three bytes are the byte order mark.
chain_bom(content) ==
    LET bom == SubSeq(content, 1, 3)
        zipfile == SubSeq(content, 4, Len(content))
    IN  IF bom # BYTE_ORDER_MARK THEN bom \o zipfile ELSE <<>> \o zipfile

\* GtfsReader::read_objects
read_objects(arch, filename, index, shape) ==
    IF index >= Len(arch) \/ ~arch[index + 1].readable
      THEN Outcome(Err(FileNotFound(<<"Missing file: ", filename>>)), <<>>, None)
    ELSE LET content == arch[index + 1].content IN
         IF Len(content) < 3
           THEN Outcome(Err(FileReadError(filename)), <<index>>, None)
         ELSE LET chained == chain_bom(content)
                  records == Records(chained)
                  headers == IF records = <<>> THEN <<>> ELSE Head(records)
                  rows    == IF records = <<>> THEN <<>> ELSE Tail(records)
              IN  IF ~RecordValid(headers)
                    THEN Outcome(Err(CSVError(filename, [type |-> "Utf8"], None)),
                                 <<index>>, Some(chained))
                    ELSE Outcome(read_records(filename, headers, rows, shape, 1, <<>>),
                                 <<index>>, Some(chained))

\* GtfsReader::read_gtfs: the unwrap aborts when the table is not in the index.
read_gtfs(mappings, arch, filename, shape) ==
    IF filename \notin DOMAIN mappings
      THEN Outcome(Panic, <<>>, None)
      ELSE read_objects(arch, filename, mappings[filename], shape)

\* A custom() that looks the name up among the entries when the index does
\* not have it.
custom_by_entry_name(mappings, arch, filename, shape) ==
    IF filename \in DOMAIN mappings
      THEN read_objects(arch, filename, mappings[filename], shape)
    ELSE IF \E i \in DOMAIN arch : file_name(arch[i].name) = Some(filename)
      THEN read_objects(arch, filename,
                        (CHOOSE i \in DOMAIN arch : file_name(arch[i].name) = Some(filename)) - 1,
                        shape)
    ELSE Outcome(Err(FileNotFound(<<"Missing file: ", filename>>)), <<>>, None)

\* GtfsReader::custom
custom(mappings, arch, filename, shape) ==
    IF filename \in DOMAIN mappings
      THEN read_objects(arch, filename, mappings[filename], shape)
      ELSE Outcome(Err(FileNotFound(<<filename>>)), <<>>, None)

(***************************************************************************)
(* Relational linker (GtfsReader::trips in lib.rs, Trip::create_trips in   *)
(* structures/trips.rs).  A RawTrip is [id, route_id]: route_id stands for *)
(* the scalar fields, which are all carried over the same way.  A          *)
(* RawStopTime is [trip_id, stop_id, stop_sequence]; a Stop is [id, name]. *)
(* A mapping (HashMap<String, V>) is a function on its key set.            *)
(***************************************************************************)
\* A conversion that does not carry the route over.
TripFrom_rerouted(rt) == [id |-> rt.id, route_id |-> "r1", stop_times |-> <<>>]

\* impl From<RawTrip> for Trip
TripFrom(rt) == [id |-> rt.id, route_id |-> rt.route_id, stop_times |-> <<>>]

\* Arc::new(s) for the stop of row i of the stops table: the stop together
\* with the allocation that holds it, one allocation for each row.
Arc_new(s, i) == [id |-> s.id, name |-> s.name, arc |-> i]

\* A StopTime that holds a copy of the stop, in an allocation of its own.
StopTimeFrom_copying(raw, stop) ==
    [stop |-> [stop EXCEPT !.arc = 100 + raw.stop_sequence],
     stop_sequence |-> raw.stop_sequence]

\* StopTime::from(&raw, Arc<Stop>): the schedule fields of the row (the
\* stop_sequence stands for them) and the Arc handed in.
StopTimeFrom(raw, stop) == [stop |-> stop, stop_sequence |-> raw.stop_sequence]

\* Id::id: the identifier of a record.  Agency and Attribution (the records
\* with an agency_name, respectively an organization_name) have an optional
\* identifier and give the empty string when it is absent; every other
\* record gives its id field.
Id_id(e) ==
    IF "agency_name" \in DOMAIN e \/ "organization_name" \in DOMAIN e
      THEN IF e.id.some THEN e.id.value ELSE ""
      ELSE e.id

\* collect() into a HashMap keeping the first of several equal keys.
to_map_first(elements) ==
    [k \in {Id_id(elements[i]) : i \in DOMAIN elements} |->
        elements[CHOOSE i \in DOMAIN elements :
                    /\ Id_id(elements[i]) = k
                    /\ \A j \in DOMAIN elements : Id_id(elements[j]) = k => i <= j]]

\* to_map: collect() into a HashMap inserts in order, a later equal key
\* replacing the earlier entry.
to_map(elements) ==
    [k \in {Id_id(elements[i]) : i \in DOMAIN elements} |->
        elements[Max({i \in DOMAIN elements : Id_id(elements[i]) = k})]]

\* A loop that drops a stop_time whose trip or stop is unknown.
RECURSIVE trips_fold_dropping(_, _, _, _)
trips_fold_dropping(trips_map, stops_map, rows, i) ==
    IF i > Len(rows) THEN Ok(trips_map)
    ELSE LET raw == rows[i] IN
         IF raw.trip_id \notin DOMAIN trips_map \/ raw.stop_id \notin DOMAIN stops_map
           THEN trips_fold_dropping(trips_map, stops_map, rows, i + 1)
         ELSE trips_fold_dropping(
                [trips_map EXCEPT ![raw.trip_id].stop_times =
                    Append(@, StopTimeFrom(raw, stops_map[raw.stop_id]))],
                stops_map, rows, i + 1)

\* A loop that looks the stop up before the trip.
RECURSIVE trips_fold_stop_first(_, _, _, _)
trips_fold_stop_first(trips_map, stops_map, rows, i) ==
    IF i > Len(rows) THEN Ok(trips_map)
    ELSE LET raw == rows[i] IN
         IF raw.stop_id \notin DOMAIN stops_map
           THEN Err(ReferenceError(raw.stop_id))
         ELSE IF raw.trip_id \notin DOMAIN trips_map
           THEN Err(ReferenceError(raw.trip_id))
         ELSE trips_fold_stop_first(
                [trips_map EXCEPT ![raw.trip_id].stop_times =
                    Append(@, StopTimeFrom(raw, stops_map[raw.stop_id]))],
                stops_map, rows, i + 1)

\* GtfsReader::trips, the loop over the raw stop_times from row i on: the
\* first unknown trip id or stop id ends it with a ReferenceError.
RECURSIVE trips_fold(_, _, _, _)
trips_fold(trips_map, stops_map, rows, i) ==
    IF i > Len(rows) THEN Ok(trips_map)
    ELSE LET raw == rows[i] IN
         IF raw.trip_id \notin DOMAIN trips_map
           THEN Err(ReferenceError(raw.trip_id))
         ELSE IF raw.stop_id \notin DOMAIN stops_map
           THEN Err(ReferenceError(raw.stop_id))
         ELSE trips_fold(
                [trips_map EXCEPT ![raw.trip_id].stop_times =
                    Append(@, StopTimeFrom(raw, stops_map[raw.stop_id]))],
                stops_map, rows, i + 1)

\* Trip::create_trips, its own loop over the raw stop_times.
RECURSIVE create_trips_fold(_, _, _, _)
create_trips_fold(trips_map, stops_map, rows, i) ==
    IF i > Len(rows) THEN Ok(trips_map)
    ELSE LET raw_stop_time == rows[i] IN
         IF raw_stop_time.trip_id \notin DOMAIN trips_map
           THEN Err(ReferenceError(raw_stop_time.trip_id))
         ELSE IF raw_stop_time.stop_id \notin DOMAIN stops_map
           THEN Err(ReferenceError(raw_stop_time.stop_id))
         ELSE create_trips_fold(
                [trips_map EXCEPT ![raw_stop_time.trip_id].stop_times =
                    Append(@, StopTimeFrom(raw_stop_time, stops_map[raw_stop_time.stop_id]))],
                stops_map, rows, i + 1)

\* Insertion of x behind every element whose key is not greater: what a
\* stable sort does with equal keys.
RECURSIVE InsertStable(_, _)
InsertStable(x, sorted) ==
    IF sorted = <<>> THEN <<x>>
    ELSE IF x.stop_sequence < Head(sorted).stop_sequence
           THEN <<x>> \o sorted
         ELSE <<Head(sorted)>> \o InsertStable(x, Tail(sorted))

\* A sort that puts x in front of the elements with an equal key.
RECURSIVE InsertUnstable(_, _)
InsertUnstable(x, sorted) ==
    IF sorted = <<>> THEN <<x>>
    ELSE IF x.stop_sequence <= Head(sorted).stop_sequence
           THEN <<x>> \o sorted
         ELSE <<Head(sorted)>> \o InsertUnstable(x, Tail(sorted))

RECURSIVE sort_unstable(_)
sort_unstable(s) ==
    IF s = <<>> THEN <<>>
    ELSE InsertUnstable(s[Len(s)], sort_unstable(SubSeq(s, 1, Len(s) - 1)))

\* Vec::sort_by(|a, b| a.stop_sequence.cmp(&b.stop_sequence)): a stable sort.
RECURSIVE sort_by_stop_sequence(_)
sort_by_stop_sequence(s) ==
    IF s = <<>> THEN <<>>
    ELSE InsertStable(s[Len(s)], sort_by_stop_sequence(SubSeq(s, 1, Len(s) - 1)))

\* for trip in trips.values_mut() { trip.stop_times.sort_by(..) }
sort_all(trips_map) ==
    [k \in DOMAIN trips_map |->
        [trips_map[k] EXCEPT !.stop_times = sort_by_stop_sequence(@)]]

\* The stop mapping GtfsReader::trips collects: id -> Arc<Stop>, a later
\* equal id replacing the earlier stop.
stops_by_id(stop_rows) == to_map([i \in DOMAIN stop_rows |-> Arc_new(stop_rows[i], i)])

\* GtfsReader::trips on the outcomes of its three table reads, taken in the
\* order of the code: raw_trips()?, raw_stop_times()?, stops()?; then the
\* trip mapping, the loop and the sort.
trips(r_trips, r_stop_times, r_stops) ==
    IF r_trips.kind # "Ok" THEN r_trips
    ELSE IF r_stop_times.kind # "Ok" THEN r_stop_times
    ELSE IF r_stops.kind # "Ok" THEN r_stops
    ELSE LET folded ==
               trips_fold(to_map([i \in DOMAIN r_trips.value |-> TripFrom(r_trips.value[i])]),
                          stops_by_id(r_stops.value), r_stop_times.value, 1)
         IN  IF folded.kind = "Err" THEN folded ELSE Ok(sort_all(folded.value))

\* The Trip the closure of create_trips builds from a RawTrip.
create_trips_trip(rt) == [id |-> rt.id, route_id |-> rt.route_id, stop_times |-> <<>>]

\* Trip::create_trips: the trip mapping, the loop, the sort, then the values
\* of the mapping as a list.  The list is in the iteration order of the
\* mapping, which is unspecified: it is kept as the set of its elements.
create_trips(trip_rows, stop_time_rows, stops_map) ==
    LET folded ==
          create_trips_fold(to_map([i \in DOMAIN trip_rows |-> create_trips_trip(trip_rows[i])]),
                            stops_map, stop_time_rows, 1)
    IN  IF folded.kind = "Err" THEN folded
        ELSE LET sorted == sort_all(folded.value)
             IN  Ok({sorted[k] : k \in DOMAIN sorted})

(***************************************************************************)
(* Record types.  A column is named by one letter, standing for the real   *)
(* column name: t trip_id, r route_id, b brigade_id, s stop_id, q          *)
(* stop_sequence, n stop_name, a agency_id, m agency_name, c service_id,   *)
(* d monday, i the identifier column of any other table.                   *)
(***************************************************************************)
Field(column, field, kind, default) ==
    [column |-> column, field |-> field, kind |-> kind, default |-> default]

RawTripShape ==
    << Field(<<114>>, "route_id", "String", None), Field(<<116>>, "id", "String", None) >>

RawStopTimeShape ==
    << Field(<<116>>, "trip_id", "String", None),
       Field(<<115>>, "stop_id", "String", None),
       Field(<<113>>, "stop_sequence", "u16", None) >>

StopShape ==
    << Field(<<115>>, "id", "String", None), Field(<<110>>, "name", "Option", None) >>

AgencyShape ==
    << Field(<<97>>, "id", "Option", None), Field(<<109>>, "name", "String", None) >>

CalendarShape ==
    << Field(<<99>>, "id", "String", None), Field(<<100>>, "monday", "bool", None) >>

OtherShape == << Field(<<105>>, "id", "String", None) >>

\* The record type each accessor decodes its table into.
Schema(filename) ==
    CASE filename = "trips.txt"      -> RawTripShape
      [] filename = "stop_times.txt" -> RawStopTimeShape
      [] filename = "stops.txt"      -> StopShape
      [] filename = "agency.txt"     -> AgencyShape
      [] filename = "calendar.txt"   -> CalendarShape
      [] OTHER                       -> OtherShape

\* The tables that have an accessor: every dataset file but translations.txt.
AccessorFiles == DATASET_FILES \ {"translations.txt"}

\* Record types a caller of custom() declares: the TripBrigade of the crate
\* documentation, and variants with an optional and with a boolean field.
TripBrigade ==
    << Field(<<116>>, "trip_id", "String", None), Field(<<98>>, "brigade_id", "String", None) >>

TripOptionalBrigade ==
    << Field(<<116>>, "trip_id", "String", None), Field(<<98>>, "brigade_id", "Option", None) >>

TripFlag ==
    << Field(<<116>>, "trip_id", "String", None), Field(<<98>>, "flag", "bool", None) >>

CustomShapes == {TripBrigade, TripOptionalBrigade, TripFlag}

\* GtfsReader::trips on a session: the three tables are read in turn, each
\* read made only when the one before it returned records.
trips_accessor(mappings, arch) ==
    LET r1 == read_gtfs(mappings, arch, "trips.txt", Schema("trips.txt"))
        r2 == read_gtfs(mappings, arch, "stop_times.txt", Schema("stop_times.txt"))
        r3 == read_gtfs(mappings, arch, "stops.txt", Schema("stops.txt"))
    IN  IF r1.result.kind # "Ok" THEN r1
        ELSE IF r2.result.kind # "Ok" THEN Outcome(r2.result, r1.reads \o r2.reads, r2.stream)
        ELSE Outcome(trips(r1.result, r2.result, r3.result),
                     r1.reads \o r2.reads \o r3.reads, r3.stream)

(***************************************************************************)
(* The codec specification: a text and a value are drawn from bounded      *)
(* sets, and each action applies one codec function to them.               *)
(***************************************************************************)
MaxTextLen == 3

\* the characters 0, 1, space and t
TextAlphabet == {48, 49, 32, 116}
\* "true"
StrTrue == <<116, 114, 117, 101>>
Texts == SeqsUpTo(TextAlphabet, MaxTextLen) \cup {StrTrue}

NotApplied == [codec |-> "none"]

SessionIdle ==
    /\ archive = <<>>
    /\ corrupt = FALSE
    /\ session = "unopened"
    /\ file_mappings = <<>>
    /\ reads = <<>>
    /\ call = [op |-> "none"]
    /\ result = NoResult
    /\ stream = None

LinkIdle ==
    /\ raw_trips = NoResult
    /\ raw_stop_times = NoResult
    /\ stops = NoResult
    /\ linked = [op |-> "none"]

CodecIdle ==
    /\ text = <<>>
    /\ value = FALSE
    /\ decoded = NotApplied
    /\ encoded = NotApplied

InitCodec ==
    /\ SessionIdle
    /\ LinkIdle
    /\ text \in Texts
    /\ value \in BOOLEAN
    /\ decoded = NotApplied
    /\ encoded = NotApplied

DeserializeBool ==
    /\ decoded' = [codec |-> "deserialize_bool", out |-> deserialize_bool(text)]
    /\ UNCHANGED <<text, value, encoded, sessionVars, linkVars>>

SerializeBool ==
    /\ encoded' = [codec |-> "serialize_bool", out |-> serialize_bool(value)]
    /\ UNCHANGED <<text, value, decoded, sessionVars, linkVars>>

NextCodec ==
    \/ DeserializeBool
    \/ SerializeBool

SpecCodec == InitCodec /\ [][NextCodec]_vars

\* C10: the boolean decoder takes exactly "0" to false and "1" to true and
\* rejects every other text with an error naming it; the encoder renders
\* false as "0" and true as "1"; decoding an encoded boolean gives it back and
\* encoding a decoded text gives the text back.
C10_BoolCodec ==
    /\ decoded.codec = "deserialize_bool" =>
          /\ text = Str0 => decoded.out = Ok(FALSE)
          /\ text = Str1 => decoded.out = Ok(TRUE)
          /\ text \notin {Str0, Str1} =>
                /\ decoded.out.kind = "Err"
                /\ decoded.out.error.message.text = text
          /\ decoded.out.kind = "Ok" => serialize_bool(decoded.out.value) = Ok(text)
    /\ encoded.codec = "serialize_bool" =>
          /\ encoded.out = Ok(IF value THEN Str1 ELSE Str0)
          /\ deserialize_bool(encoded.out.value) = Ok(value)

\* A rejected text ("true") and an accepted one have both been decoded, and a
\* boolean encoded.
C10_Witness ==
    /\ decoded.codec = "deserialize_bool"
    /\ text = StrTrue
    /\ decoded.out.kind = "Err"
    /\ encoded.codec = "serialize_bool"
    /\ value = TRUE

(***************************************************************************)
(* The linker specification: the three decoded tables are drawn from       *)
(* bounded sets and each action runs one linking entry point on them.      *)
(***************************************************************************)
MaxStopTimes == 3

RawTripRows ==
    { <<[id |-> "t1", route_id |-> "r1"]>>,
      <<[id |-> "t1", route_id |-> "r1"], [id |-> "t2", route_id |-> "r2"]>>,
      <<[id |-> "t1", route_id |-> "r1"], [id |-> "t1", route_id |-> "r2"]>>,
      <<>> }

StopRows ==
    { <<[id |-> "s1", name |-> "a"]>>,
      <<[id |-> "s1", name |-> "a"], [id |-> "s2", name |-> "b"]>>,
      <<[id |-> "s1", name |-> "a"], [id |-> "s1", name |-> "b"]>> }

StopSequences == 0..1

RawStopTimeRow == [trip_id : {"t1", "t2"}, stop_id : {"s1", "s2"}, stop_sequence : StopSequences]

\* A table read that failed (any Error of read_objects).
TableReadFailed(name) == Err(CSVError(name, "decode", None))

InitLink ==
    /\ SessionIdle
    /\ CodecIdle
    /\ raw_trips \in {Ok(rows) : rows \in RawTripRows} \cup {TableReadFailed("trips.txt")}
    /\ raw_stop_times \in {Ok(rows) : rows \in SeqsUpTo(RawStopTimeRow, MaxStopTimes)}
                            \cup {TableReadFailed("stop_times.txt")}
    /\ stops \in {Ok(rows) : rows \in StopRows} \cup {TableReadFailed("stops.txt")}
    /\ linked = [op |-> "none"]

\* GtfsReader::trips
Trips ==
    /\ linked' = [op |-> "trips", out |-> trips(raw_trips, raw_stop_times, stops)]
    /\ UNCHANGED <<raw_trips, raw_stop_times, stops, sessionVars, codecVars>>

\* Trip::create_trips on decoded tables and the stop mapping built from them.
CreateTrips ==
    /\ raw_trips.kind = "Ok"
    /\ raw_stop_times.kind = "Ok"
    /\ stops.kind = "Ok"
    /\ linked' = [op |-> "create_trips",
                  out |-> create_trips(raw_trips.value, raw_stop_times.value,
                                       stops_by_id(stops.value))]
    /\ UNCHANGED <<raw_trips, raw_stop_times, stops, sessionVars, codecVars>>

NextLink ==
    \/ Trips
    \/ CreateTrips

SpecLink == InitLink /\ [][NextLink]_vars

TablesDecoded == raw_trips.kind = "Ok" /\ raw_stop_times.kind = "Ok" /\ stops.kind = "Ok"

\* The identifiers some raw stop_time names that no raw trip, respectively no
\* stop, has.
MissingIds ==
    ({raw_stop_times.value[i].trip_id : i \in DOMAIN raw_stop_times.value}
        \ {raw_trips.value[i].id : i \in DOMAIN raw_trips.value})
    \cup
    ({raw_stop_times.value[i].stop_id : i \in DOMAIN raw_stop_times.value}
        \ {stops.value[i].id : i \in DOMAIN stops.value})

\* C1: when some raw stop_time names a trip id that is no raw trip's id, or a
\* stop id that is no stop's id, either linking entry point returns a
\* ReferenceError whose payload is such a missing identifier, and returns no
\* trip mapping, not even a partial one.
C1_ReferenceError ==
    (linked.op \in {"trips", "create_trips"} /\ TablesDecoded /\ MissingIds # {}) =>
        /\ linked.out.kind = "Err"
        /\ DOMAIN linked.out = {"kind", "error"}
        /\ linked.out.error.type = "ReferenceError"
        /\ linked.out.error.payload \in MissingIds

\* Linking ran on tables in which a stop_time names a known trip and an
\* unknown stop, and on tables in which it names an unknown trip.
C1_Witness ==
    /\ linked.op = "trips"
    /\ TablesDecoded
    /\ Len(raw_stop_times.value) = 2
    /\ raw_stop_times.value[1].trip_id = "t1"
    /\ raw_stop_times.value[1].stop_id = "s1"
    /\ raw_stop_times.value[2].stop_id = "s2"
    /\ "s2" \in MissingIds
    /\ "t1" \notin MissingIds
    /\ linked.out.kind = "Err"

\* The trips a successful linking call returned, as a set.
LinkedTrips ==
    IF linked.op = "trips" THEN {linked.out.value[k] : k \in DOMAIN linked.out.value}
    ELSE linked.out.value

NonDecreasing(st) ==
    \A i, j \in DOMAIN st : i < j => st[i].stop_sequence <= st[j].stop_sequence

\* The stop-times of trip id with stop_sequence q, in the order of their rows
\* in the raw stop_times table, each with the stop its row names.
RowsInOrder(id, q) ==
    LET Mine(r) == r.trip_id = id /\ r.stop_sequence = q
        rows == SelectSeq(raw_stop_times.value, Mine)
        byId == stops_by_id(stops.value)
    IN  [i \in DOMAIN rows |-> StopTimeFrom(rows[i], byId[rows[i].stop_id])]

\* C2: after a successful linking pass every trip's stop_times are
\* non-decreasing in stop_sequence, and the stop-times of one trip with the
\* same stop_sequence are in the order of their rows in the raw table.
C2_SortedStable ==
    (linked.op \in {"trips", "create_trips"} /\ linked.out.kind = "Ok") =>
        \A t \in LinkedTrips :
            /\ NonDecreasing(t.stop_times)
            /\ \A q \in StopSequences :
                 LET HasKey(x) == x.stop_sequence = q
                 IN  SelectSeq(t.stop_times, HasKey) = RowsInOrder(t.id, q)

\* trip t1 was linked from rows given out of order (stop_sequence 1 first) and
\* with two rows of equal stop_sequence at different stops.
C2_Witness ==
    /\ linked.op = "trips"
    /\ linked.out.kind = "Ok"
    /\ Len(raw_stop_times.value) = 3
    /\ \A i \in 1..3 : raw_stop_times.value[i].trip_id = "t1"
    /\ raw_stop_times.value[1].stop_sequence = 1
    /\ raw_stop_times.value[2].stop_sequence = 0
    /\ raw_stop_times.value[3].stop_sequence = 0
    /\ raw_stop_times.value[2].stop_id = "s2"
    /\ raw_stop_times.value[3].stop_id = "s1"
    /\ Len(linked.out.value["t1"].stop_times) = 3
    /\ linked.out.value["t1"].stop_times[1].stop.id = "s2"

(***************************************************************************)
(* The session specification: an archive is drawn from a bounded set, the  *)
(* session is opened on it, and accessors are called on the open session.  *)
(***************************************************************************)
MaxEntries == 3
MaxRows == 2

RECURSIVE JoinFields(_)
JoinFields(fields) ==
    IF fields = <<>> THEN <<>>
    ELSE IF Len(fields) = 1 THEN fields[1]
    ELSE fields[1] \o <<44>> \o JoinFields(Tail(fields))

RECURSIVE JoinLines(_)
JoinLines(records) ==
    IF records = <<>> THEN <<>>
    ELSE JoinFields(records[1]) \o <<10>> \o JoinLines(Tail(records))

\* The bytes of a table file: leading bytes, the header line, the data lines.
Render(lead, header, rows) == lead \o JoinLines(<<header>> \o rows)

\* Nothing, the byte order mark, and a lone 0xEF (not valid UTF-8).
Leads == {<<>>, BYTE_ORDER_MARK, <<239>>}

Headers ==
    { <<<<116>>, <<98>>>>, <<<<98>>, <<116>>>>, <<<<116>>, <<120>>, <<98>>>>,
      <<<<116>>>>, <<<<116>>, <<114>>>>, <<<<116>>, <<98>>, <<116>>>> }

\* Data rows: fields 1, 0 and x, an empty field, and a field that is the
\* lone continuation byte 0xBB.
DataRows ==
    { <<<<49>>, <<48>>>>, <<<<49>>>>, <<<<49>>, <<48>>, <<49>>>>,
      <<<<49>>, <<187>>>>, <<<<49>>, <<120>>>>, <<<<49>>, <<>>>> }

Contents ==
    {Render(lead, header, rows) :
        lead \in Leads, header \in Headers, rows \in SeqsUpTo(DataRows, MaxRows)}

Entry(name, content, readable) ==
    [name |-> name, content |-> content, readable |-> readable]

\* Archives with one table, trips.txt, of any of the contents.
DecodeArchives == {<<Entry(<<"trips.txt">>, c, TRUE)>> : c \in Contents}

SmallTable == Render(<<>>, <<<<116>>, <<98>>>>, <<<<<<49>>, <<48>>>>>>)

\* Entries at the top level and in a directory, with recognized and other
\* names, and one that cannot be opened.
IndexEntries ==
    { Entry(<<"agency.txt">>, SmallTable, TRUE),
      Entry(<<"feed", "agency.txt">>, SmallTable, TRUE),
      Entry(<<"feed", "trips.txt">>, SmallTable, TRUE),
      Entry(<<"feed">>, <<>>, TRUE),
      Entry(<<"brigades.txt">>, SmallTable, TRUE),
      Entry(<<"stops.txt">>, SmallTable, FALSE) }

IndexArchives == SeqsUpTo(IndexEntries, MaxEntries)

\* An archive whose trips, stop_times and stops tables link.
LinkArchive ==
    << Entry(<<"trips.txt">>, Render(<<>>, <<<<116>>, <<114>>>>, <<<<<<49>>, <<49>>>>>>), TRUE),
       Entry(<<"stop_times.txt">>,
             Render(<<>>, <<<<116>>, <<115>>, <<113>>>>, <<<<<<49>>, <<49>>, <<48>>>>>>), TRUE),
       Entry(<<"stops.txt">>, Render(<<>>, <<<<115>>, <<110>>>>, <<<<<<49>>, <<120>>>>>>), TRUE) >>

\* Tables for trips(): the trip 1; the stop 1; stop_times that link, that
\* do not decode, and that name the unknown trip x, the unknown stop 0, both
\* in one row, and the unknown stop in a row before the unknown trip.
TripsTables ==
    { Render(<<>>, <<<<116>>, <<114>>>>, <<<<<<49>>, <<49>>>>>>),
      Render(<<>>, <<<<116>>, <<114>>>>, <<<<<<49>>>>>>) }

StopTimesTables ==
    { Render(<<>>, <<<<116>>, <<115>>, <<113>>>>, rows) :
        rows \in { <<<<<<49>>, <<49>>, <<48>>>>>>,
                   <<<<<<49>>, <<49>>, <<120>>>>>>,
                   <<<<<<120>>, <<49>>, <<48>>>>>>,
                   <<<<<<49>>, <<48>>, <<48>>>>>>,
                   <<<<<<120>>, <<48>>, <<48>>>>>>,
                   <<<<<<49>>, <<48>>, <<48>>>>, <<<<120>>, <<49>>, <<48>>>>>> } }

StopsTables ==
    { Render(<<>>, <<<<115>>, <<110>>>>, <<<<<<49>>, <<120>>>>>>), <<115>> }

\* The table under its name, or no entry for it.
OneTable(name, tables) == {<<Entry(<<name>>, c, TRUE)>> : c \in tables} \cup {<<>>}

LinkArchives ==
    { a \o b \o c : a \in OneTable("trips.txt", TripsTables),
                    b \in OneTable("stop_times.txt", StopTimesTables),
                    c \in OneTable("stops.txt", StopsTables) }

Archives == IndexArchives \cup DecodeArchives \cup {LinkArchive} \cup LinkArchives

\* Names custom() is called with: a table, a name that is no dataset file
\* although an entry has it, and a dataset file.
CustomNames == {"trips.txt", "brigades.txt", "stops.txt"}

Init ==
    /\ LinkIdle
    /\ CodecIdle
    /\ archive \in Archives
    /\ corrupt \in BOOLEAN
    /\ session = "unopened"
    /\ file_mappings = EmptyMap
    /\ reads = <<>>
    /\ call = [op |-> "none"]
    /\ result = NoResult
    /\ stream = None

\* GtfsReader::from_path / from_url, through from_reader.
Open ==
    /\ session = "unopened"
    /\ LET opened == from_reader(archive, corrupt) IN
         /\ session' = IF opened.kind = "Ok" THEN "open" ELSE "failed"
         /\ file_mappings' = IF opened.kind = "Ok" THEN opened.value ELSE EmptyMap
         /\ result' = IF opened.kind = "Ok" THEN Ok("GtfsReader") ELSE opened
    /\ call' = [op |-> "from_reader"]
    /\ UNCHANGED <<archive, corrupt, reads, stream, linkVars, codecVars>>

\* A session that drops its index when a call returns an error.
Called_forgetting(this, outcome) ==
    /\ call' = this @@ [after |-> IF call.op = "from_reader" THEN "open" ELSE result.kind]
    /\ result' = outcome.result
    /\ reads' = outcome.reads
    /\ stream' = outcome.stream
    /\ session' = IF outcome.result.kind = "Panic" THEN "aborted" ELSE "open"
    /\ file_mappings' = IF outcome.result.kind = "Err" THEN EmptyMap ELSE file_mappings
    /\ UNCHANGED <<archive, corrupt, linkVars, codecVars>>

\* The session after a call: an abort ends it, anything else leaves it open
\* with the index it had.  The call is recorded with what came before it on
\* the session: the open, or a call that returned records or an error.
Called(this, outcome) ==
    /\ call' = this @@ [after |-> IF call.op = "from_reader" THEN "open" ELSE result.kind]
    /\ result' = outcome.result
    /\ reads' = outcome.reads
    /\ stream' = outcome.stream
    /\ session' = IF outcome.result.kind = "Panic" THEN "aborted" ELSE "open"
    /\ UNCHANGED <<archive, corrupt, file_mappings, linkVars, codecVars>>

\* agencies(), attributions(), ..., raw_trips(): read_gtfs on the table.
ReadGtfs ==
    /\ session = "open"
    /\ \E filename \in AccessorFiles :
         Called([op |-> "read_gtfs", name |-> filename],
                read_gtfs(file_mappings, archive, filename, Schema(filename)))

\* custom::<T>(filename)
CallCustom ==
    /\ session = "open"
    /\ \E filename \in CustomNames, shape \in CustomShapes :
         Called([op |-> "custom", name |-> filename, shape |-> shape],
                custom(file_mappings, archive, filename, shape))

\* trips()
CallTrips ==
    /\ session = "open"
    /\ Called([op |-> "trips"], trips_accessor(file_mappings, archive))

Next ==
    \/ Open
    \/ ReadGtfs
    \/ CallCustom
    \/ CallTrips

Spec == Init /\ [][Next]_vars

\* The entries whose terminal path component is the name n, by entry index.
EntriesNamed(n) ==
    {i - 1 : i \in {j \in DOMAIN archive :
                      archive[j].name # <<>> /\ archive[j].name[Len(archive[j].name)] = n}}

WellFormed == ~corrupt /\ \A i \in DOMAIN archive : archive[i].readable

\* The tables a call needs: its own for an accessor, three for trips().
TablesOf(c) ==
    IF c.op = "trips" THEN {"trips.txt", "stop_times.txt", "stops.txt"}
    ELSE IF c.op = "read_gtfs" THEN {c.name}
    ELSE {}

\* C3: a built-in accessor called on a session whose archive has no entry for
\* its table returns a FileNotFound error naming the table; it does not abort.
C3_MissingTableIsError ==
    (\E n \in TablesOf(call) : EntriesNamed(n) = {}) =>
        /\ result.kind = "Err"
        /\ result.error.type = "FileNotFound"
        /\ \E n \in TablesOf(call) :
             EntriesNamed(n) = {} /\ n \in Range(result.error.payload)

\* C4: after a successful open the index has a key for exactly the dataset
\* files that are the terminal path component of some entry, each mapped to
\* the largest index of such an entry, which is below the number of entries;
\* and opening a well-formed container succeeds whichever tables it holds.
C4_IndexAfterOpen ==
    /\ (session # "unopened" /\ WellFormed) => session # "failed"
    /\ session \in {"open", "aborted"} =>
          /\ DOMAIN file_mappings \subseteq DATASET_FILES
          /\ \A n \in DATASET_FILES :
                /\ n \in DOMAIN file_mappings <=> EntriesNamed(n) # {}
                /\ n \in DOMAIN file_mappings =>
                      /\ file_mappings[n] = Max(EntriesNamed(n))
                      /\ file_mappings[n] < Len(archive)

\* A session is open on an archive with agency.txt at the top level and again
\* in a directory behind it, and with entries that are no dataset files.
C4_Witness ==
    /\ session = "open"
    /\ Len(archive) = 3
    /\ archive[1].name = <<"agency.txt">>
    /\ archive[2].name = <<"feed", "agency.txt">>
    /\ archive[3].name = <<"brigades.txt">>
    /\ file_mappings = ("agency.txt" :> 1)

\* The bytes of the entry the last call read.
ContentRead == archive[file_mappings[call.name] + 1].content

StartsWithBom(b) == Len(b) >= 3 /\ SubSeq(b, 1, 3) = BYTE_ORDER_MARK

Stripped(b) == IF StartsWithBom(b) THEN SubSeq(b, 4, Len(b)) ELSE b

\* C5: whatever the bytes of the entry, of any length, the stream read_objects
\* hands to the tokenizer is those bytes without a leading byte order mark.
C5_BomTransparent ==
    (call.op \in {"read_gtfs", "custom"} /\ call.name \in DOMAIN file_mappings) =>
        stream = Some(Stripped(ContentRead))

\* C6: in a CSVError the header list and the raw-value list have the same
\* length when both are there, and there is no raw-value list when the row
\* was not tokenized.
C6_LineErrorShape ==
    (result.kind = "Err" /\ result.error.type = "CSVError") =>
        LET line == result.error.line_in_error IN
        /\ (line.some /\ "values" \in DOMAIN line.value) =>
              Len(line.value.headers) = Len(line.value.values)
        /\ result.error.source.type = "Utf8" =>
              (~line.some \/ "values" \notin DOMAIN line.value)

\* The record type the last table read decoded into.
ShapeOf(c) == IF c.op = "custom" THEN c.shape ELSE Schema(c.name)

Min(S) == CHOOSE x \in S : \A y \in S : x <= y

\* C7: a table read returns either an error or one fully decoded record per
\* data row, in row order; when a row is not tokenized or not decoded, it
\* returns the error of the first such row and no record at all.
C7_AllOrNothing ==
    (call.op \in {"read_gtfs", "custom"} /\ result.kind # "Panic") =>
        /\ result.kind \in {"Ok", "Err"}
        /\ result.kind = "Err" => DOMAIN result = {"kind", "error"}
        /\ ~stream.some => result.kind = "Err"
        /\ (stream.some /\ Records(stream.value) # <<>>
                /\ RecordValid(Head(Records(stream.value)))) =>
             LET headers == Head(Records(stream.value))
                 rows == Tail(Records(stream.value))
                 shape == ShapeOf(call)
                 Decoded(i) == deserialize(rows[i], headers, shape)
                 failing == {i \in DOMAIN rows :
                               ~RecordValid(rows[i]) \/ Decoded(i).kind = "Err"}
             IN  IF failing = {}
                   THEN /\ result.kind = "Ok"
                        /\ Len(result.value) = Len(rows)
                        /\ \A i \in DOMAIN rows :
                             /\ result.value[i] = Decoded(i).value
                             /\ DOMAIN result.value[i] =
                                  {shape[k].field : k \in DOMAIN shape}
                   ELSE LET first == Min(failing) IN
                        /\ result.kind = "Err"
                        /\ result.error.type = "CSVError"
                        /\ result.error.line_in_error.some
                        /\ result.error.line_in_error.value.headers = headers
                        /\ IF RecordValid(rows[first])
                             THEN /\ result.error.line_in_error.value.values = rows[first]
                                  /\ result.error.source = Decoded(first).error
                             ELSE result.error.source.type = "Utf8"

\* A table whose first row decodes and whose second row does not was read
\* into TripFlag: the read returned the error of the second row.
C7_Witness ==
    /\ call.op = "custom"
    /\ call.shape = TripFlag
    /\ stream.some
    /\ Len(Records(stream.value)) = 3
    /\ deserialize(Records(stream.value)[2], Records(stream.value)[1], TripFlag).kind = "Ok"
    /\ result.kind = "Err"
    /\ result.error.line_in_error.value.values = Records(stream.value)[3]

\* C8: custom(name) with a name that is no key of the index returns
\* FileNotFound carrying exactly the name, reads no entry and leaves the
\* session as it was; it reads an entry only when the name is a key.
C8_CustomNotFound ==
    call.op = "custom" =>
        /\ call.name \notin DOMAIN file_mappings =>
              /\ result = Err(FileNotFound(<<call.name>>))
              /\ reads = <<>>
              /\ stream = None
        /\ reads # <<>> =>
              /\ call.name \in DOMAIN file_mappings
              /\ reads = <<file_mappings[call.name]>>
        /\ session = "open"
        /\ \A n \in DATASET_FILES :
              /\ n \in DOMAIN file_mappings <=> EntriesNamed(n) # {}
              /\ n \in DOMAIN file_mappings => file_mappings[n] = Max(EntriesNamed(n))

\* custom() was called with brigades.txt, which an entry is named but which is
\* no dataset file, and returned FileNotFound.
C8_Witness ==
    /\ call.op = "custom"
    /\ call.name = "brigades.txt"
    /\ EntriesNamed("brigades.txt") # {}
    /\ result.kind = "Err"
    /\ result.error.type = "FileNotFound"

\* The table of an entry: the records of its bytes after the byte order mark.
TableOf(b) == Records(Stripped(b))

\* The positions of the header columns of a name.
ColumnsNamed(headers, column) == {j \in DOMAIN headers : headers[j] = column}

\* The value a declared field has for the text of its column in a row.
ValueOfText(kind, s) ==
    CASE kind = "Option" -> IF s = <<>> THEN None ELSE Some(s)
      [] kind = "bool"   -> (s = Str1)
      [] OTHER           -> s

\* The record of a row by the columns the caller declared: each field from
\* the row's text under the header column of its name, whatever else the
\* header holds and wherever the column stands.
Projection(row, headers, shape) ==
    [f \in {shape[k].field : k \in DOMAIN shape} |->
        LET d == shape[CHOOSE k \in DOMAIN shape : shape[k].field = f]
            cols == ColumnsNamed(headers, d.column)
        IN  IF cols = {} THEN None
            ELSE LET j == CHOOSE c \in cols : TRUE IN
                 ValueOfText(d.kind, IF j <= Len(row) THEN row[j] ELSE <<>>)]

\* The last call was custom() on a table of the index whose header names
\* every required field of the declared record type.
CustomOnDeclaredTable ==
    /\ call.op = "custom"
    /\ call.name \in DOMAIN file_mappings
    /\ TableOf(ContentRead) # <<>>
    /\ \A k \in DOMAIN call.shape :
          call.shape[k].kind # "Option" =>
              ColumnsNamed(Head(TableOf(ContentRead)), call.shape[k].column) # {}

\* custom() returned one record per data row of the table, each the
\* projection of its row on the declared columns.
CustomProjects ==
    LET headers == Head(TableOf(ContentRead))
        rows == Tail(TableOf(ContentRead))
    IN  /\ result.kind = "Ok"
        /\ Len(result.value) = Len(rows)
        /\ \A i \in DOMAIN rows :
              result.value[i] = Projection(rows[i], headers, call.shape)

WellFormedFor(table, shape) ==
    LET headers == Head(table)
        rows == Tail(table)
    IN  /\ rows # <<>>
        /\ RecordValid(headers)
        /\ \A k \in DOMAIN shape :
              Cardinality(ColumnsNamed(headers, shape[k].column)) <= 1
        /\ \A i \in DOMAIN rows :
              /\ RecordValid(rows[i])
              /\ Len(rows[i]) >= Len(headers)
              /\ \A k \in DOMAIN shape :
                    shape[k].kind = "bool" =>
                       \A j \in ColumnsNamed(headers, shape[k].column) :
                          rows[i][j] \in {Str0, Str1}

IsDigit(c) == c \in 48..57

RECURSIVE DigitsValue(_)
DigitsValue(s) ==
    IF s = <<>> THEN 0
    ELSE DigitsValue(SubSeq(s, 1, Len(s) - 1)) * 10 + (s[Len(s)] - 48)

\* str::trim_start on the whitespace the texts here can hold.
RECURSIVE trim_start(_)
trim_start(s) ==
    IF s # <<>> /\ s[1] \in {32, 9} THEN trim_start(Tail(s)) ELSE s

\* The number of leading digits of s, at most max.
RECURSIVE LeadingDigits(_, _)
LeadingDigits(s, max) ==
    IF s = <<>> \/ max = 0 \/ ~IsDigit(s[1]) THEN 0
    ELSE 1 + LeadingDigits(Tail(s), max - 1)

\* chrono scan::number(s, 1, max): between one and max leading digits.
scan_number(s, max) ==
    LET n == LeadingDigits(s, max) IN
    IF s = <<>> THEN [kind |-> "Err", error |-> "TooShort"]
    ELSE IF n = 0 THEN [kind |-> "Err", error |-> "Invalid"]
    ELSE [kind |-> "Ok", value |-> DigitsValue(SubSeq(s, 1, n)),
          rest |-> SubSeq(s, n + 1, Len(s))]

\* A numeric item of the format: leading whitespace is skipped; an item
\* without sign takes at most width digits, a signed year any number.
numeric_item(s, width, signed) ==
    LET t == trim_start(s) IN
    IF signed /\ t # <<>> /\ t[1] = 43 THEN scan_number(Tail(t), Len(t))
    ELSE IF signed /\ t # <<>> /\ t[1] = 45
      THEN LET r == scan_number(Tail(t), Len(t)) IN
           IF r.kind = "Err" THEN r ELSE [r EXCEPT !.value = 0 - r.value]
    ELSE scan_number(t, width)

IsLeap(y) == y % 4 = 0 /\ (y % 100 # 0 \/ y % 400 = 0)

DaysIn(y, m) ==
    IF m = 2 THEN (IF IsLeap(y) THEN 29 ELSE 28)
    ELSE IF m \in {4, 6, 9, 11} THEN 30 ELSE 31

Date(y, m, d) == [year |-> y, month |-> m, day |-> d]

\* NaiveDate::from_ymd_opt
IsDate(y, m, d) == m \in 1..12 /\ d \in 1..DaysIn(y, m)

\* NaiveDate::parse_from_str(s, "%Y%m%d")
parse_from_str(s) ==
    LET y == numeric_item(s, 4, TRUE) IN
    IF y.kind = "Err" THEN y ELSE
    LET m == numeric_item(y.rest, 2, FALSE) IN
    IF m.kind = "Err" THEN m ELSE
    LET d == numeric_item(m.rest, 2, FALSE) IN
    IF d.kind = "Err" THEN d
    ELSE IF d.rest # <<>> THEN [kind |-> "Err", error |-> "TooLong"]
    ELSE IF ~IsDate(y.value, m.value, d.value) THEN [kind |-> "Err", error |-> "OutOfRange"]
    ELSE Ok(Date(y.value, m.value, d.value))

deserialize_date(s) ==
    LET r == parse_from_str(s) IN
    IF r.kind = "Err" THEN Err(DeCustom([parse |-> r.error])) ELSE r

\* format!("{}{}{}", date.year(), date.month(), date.day())
serialize_date(date) ==
    Ok(DecimalText(date.year) \o DecimalText(date.month) \o DecimalText(date.day))

\* A number as decimal text of at least two digits.
TwoDigits(n) == IF n < 10 THEN <<48>> \o DecimalText(n) ELSE DecimalText(n)

\* The text YYYYMMDD of a date of a four-digit year.
YYYYMMDD(date) == DecimalText(date.year) \o TwoDigits(date.month) \o TwoDigits(date.day)

FirstYear == 2019
LastYear == 2020

Dates ==
    {Date(y, m, d) : y \in FirstYear..LastYear, m \in 1..12, d \in 1..31} \cap
    {date \in [year : FirstYear..LastYear, month : 1..12, day : 1..31] :
        IsDate(date.year, date.month, date.day)}

\* Texts a calendar table may hold for a date: the padded text of a date,
\* its unpadded text, and the padded text with a space in front or a
\* character behind.
DateTextsOf(date) ==
    {YYYYMMDD(date), serialize_date(date).value, <<32>> \o YYYYMMDD(date),
     YYYYMMDD(date) \o <<48>>, SubSeq(YYYYMMDD(date), 1, 6) \o <<45, 49>>}

InitDate ==
    /\ SessionIdle
    /\ LinkIdle
    /\ value \in Dates
    /\ text \in DateTextsOf(value)
    /\ decoded = NotApplied
    /\ encoded = NotApplied

DeserializeDate ==
    /\ decoded' = [codec |-> "deserialize_date", out |-> deserialize_date(text)]
    /\ UNCHANGED <<text, value, encoded, sessionVars, linkVars>>

SerializeDate ==
    /\ encoded' = [codec |-> "serialize_date", out |-> serialize_date(value)]
    /\ UNCHANGED <<text, value, decoded, sessionVars, linkVars>>

NextDate ==
    \/ DeserializeDate
    \/ SerializeDate

SpecDate == InitDate /\ [][NextDate]_vars

\* C11: the date encoder writes the 8-character text YYYYMMDD of every date,
\* month and day padded to two digits, and decoding that text gives the date
\* back.
C11_DateRoundTrip ==
    encoded.codec = "serialize_date" =>
        /\ encoded.out.kind = "Ok"
        /\ Len(encoded.out.value) = 8
        /\ encoded.out.value = YYYYMMDD(value)
        /\ deserialize_date(encoded.out.value) = Ok(value)

(***************************************************************************)
(* Unsigned 64-bit integers.  A number is the sequence of its base-65536   *)
(* limbs, least significant first and without high zero limbs, so that the *)
(* arithmetic of parse_time keeps its width: a u64 has at most four limbs. *)
(***************************************************************************)
LimbBase == 65536

U64Limbs == 4

\* The limbs of a (small) natural.
RECURSIVE Limbs(_)
Limbs(n) == IF n = 0 THEN <<>> ELSE <<n % LimbBase>> \o Limbs(n \div LimbBase)

\* x * k + carry for a small factor k.
RECURSIVE MulSmall(_, _, _)
MulSmall(x, k, carry) ==
    IF x = <<>> THEN Limbs(carry)
    ELSE LET p == x[1] * k + carry IN
         <<p % LimbBase>> \o MulSmall(Tail(x), k, p \div LimbBase)

RECURSIVE Normal(_)
Normal(x) ==
    IF x # <<>> /\ x[Len(x)] = 0 THEN Normal(SubSeq(x, 1, Len(x) - 1)) ELSE x

RECURSIVE AddCarry(_, _, _)
AddCarry(x, y, carry) ==
    IF x = <<>> /\ y = <<>> THEN Limbs(carry)
    ELSE LET a == IF x = <<>> THEN 0 ELSE x[1]
             b == IF y = <<>> THEN 0 ELSE y[1]
             t == a + b + carry
         IN  <<t % LimbBase>> \o AddCarry(IF x = <<>> THEN x ELSE Tail(x),
                                          IF y = <<>> THEN y ELSE Tail(y),
                                          t \div LimbBase)

\* The exact product and sum.
Times(x, k) == Normal(MulSmall(x, k, 0))

Plus(x, y) == Normal(AddCarry(x, y, 0))

FitsU64(x) == Len(x) <= U64Limbs

\* The low 64 bits of a number.
WrapU64(x) == Normal(SubSeq(x, 1, IF Len(x) < U64Limbs THEN Len(x) ELSE U64Limbs))

\* u64 arithmetic: with overflow checks (a debug build) an overflow panics,
\* without them (a release build) the result wraps.
u64_of(exact, checks) ==
    IF FitsU64(exact) THEN Ok(exact)
    ELSE IF checks THEN Panic
    ELSE Ok(WrapU64(exact))

\* The number of a text of decimal digits.
RECURSIVE FromDigits(_)
FromDigits(s) ==
    IF s = <<>> THEN <<>>
    ELSE Normal(MulSmall(FromDigits(SubSeq(s, 1, Len(s) - 1)), 10, s[Len(s)] - 48))

\* x divided by a small divisor: quotient limbs and remainder, from the most
\* significant limb down.
RECURSIVE DivSmall(_, _)
DivSmall(x, k) ==
    IF x = <<>> THEN [q |-> <<>>, r |-> 0]
    ELSE LET hi == DivSmall(Tail(x), k)
             t == hi.r * LimbBase + x[1]
         IN  [q |-> <<t \div k>> \o hi.q, r |-> t % k]

\* format!("{}", n) of a u64: its decimal digits.
RECURSIVE DecimalOf(_)
DecimalOf(x) ==
    LET d == DivSmall(x, 10) IN
    IF Normal(d.q) = <<>> THEN <<48 + d.r>>
    ELSE Append(DecimalOf(Normal(d.q)), 48 + d.r)

\* str::parse::<u64>: an optional plus sign and at least one digit, of a
\* value that fits 64 bits.
parse_u64(s) ==
    LET digits == IF s # <<>> /\ s[1] = 43 THEN Tail(s) ELSE s IN
    IF s = <<>> THEN [kind |-> "Err", error |-> "Empty"]
    ELSE IF digits = <<>> \/ \E i \in DOMAIN digits : ~IsDigit(digits[i])
      THEN [kind |-> "Err", error |-> "InvalidDigit"]
    ELSE IF ~FitsU64(FromDigits(digits)) THEN [kind |-> "Err", error |-> "PosOverflow"]
    ELSE Ok(FromDigits(digits))

(***************************************************************************)
(* The clock-time codec (gtfs_serde.rs): seconds since midnight as u64.    *)
(***************************************************************************)
\* parse_time: the three parts are parsed, then hours * 3600 + minutes * 60
\* + seconds is computed in u64, an overflow panicking or wrapping with the
\* build.
parse_time(time_parts, checks) ==
    LET hours == parse_u64(time_parts[1])
        minutes == parse_u64(time_parts[2])
        seconds == parse_u64(time_parts[3])
    IN  IF hours.kind = "Err" THEN hours
        ELSE IF minutes.kind = "Err" THEN minutes
        ELSE IF seconds.kind = "Err" THEN seconds
        ELSE LET h == u64_of(Times(hours.value, 3600), checks) IN
             IF h.kind = "Panic" THEN h ELSE
             LET m == u64_of(Times(minutes.value, 60), checks) IN
             IF m.kind = "Panic" THEN m ELSE
             LET hm == u64_of(Plus(h.value, m.value), checks) IN
             IF hm.kind = "Panic" THEN hm
             ELSE u64_of(Plus(hm.value, seconds.value), checks)

deserialize_time(s, checks) ==
    LET parts == SplitOn(trim_start(s), 58) IN
    IF Len(parts) # 3 THEN Err(DeCustom(InvalidTime(s)))
    ELSE LET r == parse_time(parts, checks) IN
         IF r.kind = "Err" THEN Err(DeCustom([parse_int |-> r.error])) ELSE r

\* An optional decoder that takes a blank text for no value.
deserialize_option_time_trimming(field, checks) ==
    IF trim_start(field) = <<>> THEN Ok(None)
    ELSE LET r == deserialize_time(field, checks) IN
         IF r.kind = "Ok" THEN Ok(Some(r.value)) ELSE r

\* deserialize_option_time: the field is read as an Option<String>, the
\* empty field being None; a present text is split and parsed here as in
\* deserialize_time.
deserialize_option_time(field, checks) ==
    LET s == IF field = <<>> THEN None ELSE Some(field) IN
    IF ~s.some THEN Ok(None)
    ELSE LET t == s.value
             parts == SplitOn(trim_start(t), 58)
         IN  IF Len(parts) # 3 THEN Err(DeCustom(InvalidTime(t)))
             ELSE LET r == parse_time(parts, checks) IN
                  IF r.kind = "Err" THEN Err(DeCustom([parse_int |-> r.error]))
                  ELSE IF r.kind = "Ok" THEN Ok(Some(r.value))
                  ELSE r

serialize_time(time) == Ok(DecimalOf(time))

\* serialize_none writes the empty field.
serialize_option_time(time) ==
    IF time.some THEN Ok(DecimalOf(time.value)) ELSE Ok(<<>>)

\* Parts of a time text: 0, 28, 59, +5, the empty part and x.
TimeParts == {<<48>>, <<50, 56>>, <<53, 57>>, <<43, 53>>, <<>>, <<120>>}

JoinColon(a, b) == a \o <<58>> \o b

\* 5124095576030431, the largest number of hours whose seconds fit 64 bits,
\* the hours after it, and 2^64 - 1 and 2^64.
HoursFitting == <<53,49,50,52,48,57,53,53,55,54,48,51,48,52,51,49>>
HoursOverflowing == <<53,49,50,52,48,57,53,53,55,54,48,51,48,52,51,50>>
U64MaxText == <<49,56,52,52,54,55,52,52,48,55,51,55,48,57,53,53,49,54,49,53>>
U64OverText == <<49,56,52,52,54,55,52,52,48,55,51,55,48,57,53,53,49,54,49,54>>

LongParts == {HoursFitting, HoursOverflowing, U64MaxText, U64OverText}

TimeTexts ==
    {JoinColon(h, JoinColon(m, sec)) : h \in TimeParts, m \in TimeParts, sec \in TimeParts}
    \cup {JoinColon(h, m) : h \in TimeParts, m \in TimeParts}
    \cup {JoinColon(h, <<48, 58, 48>>) : h \in LongParts}
    \cup {JoinColon(<<48>>, JoinColon(m, <<53, 57>>)) : m \in LongParts}
    \cup {JoinColon(<<48, 58, 48>>, sec) : sec \in LongParts}
    \cup {<<>>, <<32>>, <<50, 56>>, <<49, 48, 48, 56, 48, 48>>,
          <<32, 50, 56, 58, 48, 58, 48>>, <<50, 56, 58, 32, 48, 58, 48>>,
          <<50, 56, 58, 48, 58, 48, 58, 48>>}

\* Seconds values: 0, 59, 100800 (28:00:00), 2^32 and 2^64 - 1.
Seconds ==
    {Limbs(0), Limbs(59), Limbs(100800), <<0, 0, 1>>, <<65535, 65535, 65535, 65535>>}

InitTime ==
    /\ SessionIdle
    /\ LinkIdle
    /\ text \in TimeTexts
    /\ value \in Seconds
    /\ decoded = NotApplied
    /\ encoded = NotApplied

DeserializeTime ==
    /\ \E checks \in BOOLEAN :
          decoded' = [codec |-> "deserialize_time", checks |-> checks,
                      out |-> deserialize_time(text, checks)]
    /\ UNCHANGED <<text, value, encoded, sessionVars, linkVars>>

DeserializeOptionTime ==
    /\ \E checks \in BOOLEAN :
          decoded' = [codec |-> "deserialize_option_time", checks |-> checks,
                      out |-> deserialize_option_time(text, checks)]
    /\ UNCHANGED <<text, value, encoded, sessionVars, linkVars>>

SerializeTime ==
    /\ encoded' = [codec |-> "serialize_time", arg |-> value, out |-> serialize_time(value)]
    /\ UNCHANGED <<text, value, decoded, sessionVars, linkVars>>

SerializeOptionTime ==
    /\ \E time \in {None, Some(value)} :
          encoded' = [codec |-> "serialize_option_time", arg |-> time,
                      out |-> serialize_option_time(time)]
    /\ UNCHANGED <<text, value, decoded, sessionVars, linkVars>>

NextTime ==
    \/ DeserializeTime
    \/ DeserializeOptionTime
    \/ SerializeTime
    \/ SerializeOptionTime

SpecTime == InitTime /\ [][NextTime]_vars

\* The parts of a time text, and whether each is an unsigned integer.
PartsOf(s) == SplitOn(trim_start(s), 58)

AllParse(parts) == \A i \in DOMAIN parts : parse_u64(parts[i]).kind = "Ok"

\* hours * 3600 + minutes * 60 + seconds, as a number of any size.
TotalSeconds(parts) ==
    Plus(Plus(Times(parse_u64(parts[1]).value, 3600),
              Times(parse_u64(parts[2]).value, 60)),
         parse_u64(parts[3]).value)

\* C12: the time decoder returns hours * 3600 + minutes * 60 + seconds for
\* every text of three parts that are unsigned integers, whatever the number
\* of hours; it rejects a text of another number of parts with InvalidTime
\* naming the text, and a part that is no integer gives a decode error.
C12_TimeDecoder ==
    decoded.codec = "deserialize_time" =>
        IF Len(PartsOf(text)) # 3
          THEN decoded.out = Err(DeCustom(InvalidTime(text)))
        ELSE IF AllParse(PartsOf(text))
          THEN decoded.out = Ok(TotalSeconds(PartsOf(text)))
        ELSE decoded.out.kind = "Err" /\ "parse_int" \in DOMAIN decoded.out.error.message

\* C13: the time encoder writes the decimal text of the seconds, and decoding
\* that text with the time decoder gives the seconds back; likewise the
\* optional pair for a present value.
C13_TimeRoundTrip ==
    /\ encoded.codec = "serialize_time" =>
          /\ encoded.out = Ok(DecimalOf(value))
          /\ \A checks \in BOOLEAN :
                deserialize_time(encoded.out.value, checks) = Ok(value)
    /\ (encoded.codec = "serialize_option_time" /\ encoded.arg.some) =>
          /\ encoded.out = Ok(DecimalOf(value))
          /\ \A checks \in BOOLEAN :
                deserialize_option_time(encoded.out.value, checks) = Ok(Some(value))

(***************************************************************************)
(* The color codec (gtfs_serde.rs): Option<RGB8> as six hex digits.        *)
(***************************************************************************)
RECURSIVE trim_end(_)
trim_end(s) ==
    IF s # <<>> /\ s[Len(s)] \in {32, 9} THEN trim_end(SubSeq(s, 1, Len(s) - 1)) ELSE s

\* str::trim
trim(s) == trim_end(trim_start(s))

IsHexDigit(c) == c \in (48..57) \cup (65..70) \cup (97..102)

HexValue(c) == IF c <= 57 THEN c - 48 ELSE IF c <= 70 THEN c - 55 ELSE c - 87

\* A string may be sliced at a byte index only between characters: not in
\* front of a continuation byte (128..191) of a multi-byte character.
IsCharBoundary(s, i) == i = 0 \/ i = Len(s) \/ (i < Len(s) /\ s[i + 1] \notin 128..191)

\* u8::from_str_radix(src, 16) of a text of at most two bytes: an optional
\* plus sign, then at least one hex digit.
u8_from_str_radix(src) ==
    LET digits == IF src # <<>> /\ src[1] = 43 THEN Tail(src) ELSE src IN
    IF digits = <<>> \/ \E i \in DOMAIN digits : ~IsHexDigit(digits[i])
      THEN [kind |-> "Err", error |-> "ParseIntError"]
    ELSE Ok(IF Len(digits) = 1 THEN HexValue(digits[1])
            ELSE HexValue(digits[1]) * 16 + HexValue(digits[2]))

\* The channel at bytes first + 1 .. first + 2 of the text: the slice
\* &s[first..first + 2] panics when it cuts a character, and a text that is
\* no number is InvalidColor.
channel(s, first) ==
    IF ~IsCharBoundary(s, first) \/ ~IsCharBoundary(s, first + 2) THEN Panic
    ELSE LET n == u8_from_str_radix(SubSeq(s, first + 1, first + 2)) IN
         IF n.kind = "Err" THEN Err(InvalidColor(s)) ELSE n

RGB8(r, g, b) == [r |-> r, g |-> g, b |-> b]

parse_color(s) ==
    IF Len(s) # 6 THEN Err(InvalidColor(s))
    ELSE LET r == channel(s, 0) IN
         IF r.kind # "Ok" THEN r ELSE
         LET g == channel(s, 2) IN
         IF g.kind # "Ok" THEN g ELSE
         LET b == channel(s, 4) IN
         IF b.kind # "Ok" THEN b
         ELSE Ok(RGB8(r.value, g.value, b.value))

deserialize_option_color(field) ==
    LET s == trim(field) IN
    IF s = <<>> THEN Ok(None)
    ELSE LET c == parse_color(s) IN
         IF c.kind = "Ok" THEN Ok(Some(c.value))
         ELSE IF c.kind = "Err" THEN Err(DeCustom(c.error))
         ELSE c

HexDigit(n) == IF n < 10 THEN 48 + n ELSE 55 + n

\* format!("{:02X}", channel)
UpperHex02(n) ==
    IF n < 16 THEN <<48, HexDigit(n)>>
    ELSE <<HexDigit(n \div 16), HexDigit(n % 16)>>

\* format!("{:X}", channel), without the padding.
UpperHex(n) ==
    IF n < 16 THEN <<HexDigit(n)>>
    ELSE <<HexDigit(n \div 16), HexDigit(n % 16)>>

serialize_option_color_unpadded(color) ==
    IF ~color.some THEN Ok(<<>>)
    ELSE Ok(UpperHex(color.value.r) \o UpperHex(color.value.g) \o UpperHex(color.value.b))

\* serialize_none writes the empty field.
serialize_option_color(color) ==
    IF ~color.some THEN Ok(<<>>)
    ELSE Ok(UpperHex02(color.value.r) \o UpperHex02(color.value.g)
              \o UpperHex02(color.value.b))

MaxChannel == 255

\* Pieces of color texts: 0, FF, a0, 00, +F, g0, a two-byte character and
\* a space.
ColorPieces ==
    {<<48>>, <<70, 70>>, <<97, 48>>, <<48, 48>>, <<43, 70>>, <<103, 48>>,
     <<195, 169>>, <<32>>}

ColorTexts ==
    {a \o b \o c : a \in ColorPieces, b \in ColorPieces, c \in ColorPieces}
    \cup {a \o b \o c \o d : a \in ColorPieces, b \in ColorPieces,
                             c \in ColorPieces, d \in ColorPieces}
    \cup {<<>>, <<32>>, <<45, 49, 45, 49, 45, 49>>}

\* Channel values for the other two channels while one takes every value.
SomeChannels == {0, 10, 160, MaxChannel}

Colors ==
    {RGB8(c, x, y) : c \in 0..MaxChannel, x \in SomeChannels, y \in SomeChannels}
    \cup {RGB8(x, c, y) : c \in 0..MaxChannel, x \in SomeChannels, y \in SomeChannels}
    \cup {RGB8(x, y, c) : c \in 0..MaxChannel, x \in SomeChannels, y \in SomeChannels}

OptionColors == {None} \cup {Some(c) : c \in Colors}

InitColor ==
    /\ SessionIdle
    /\ LinkIdle
    /\ \/ text \in ColorTexts /\ value = None
       \/ text = <<>> /\ value \in OptionColors
    /\ decoded = NotApplied
    /\ encoded = NotApplied

DeserializeOptionColor ==
    /\ decoded' = [codec |-> "deserialize_option_color",
                   out |-> deserialize_option_color(text)]
    /\ UNCHANGED <<text, value, encoded, sessionVars, linkVars>>

SerializeOptionColor ==
    /\ encoded' = [codec |-> "serialize_option_color",
                   out |-> serialize_option_color(value)]
    /\ UNCHANGED <<text, value, decoded, sessionVars, linkVars>>

\* The text the encoder wrote is read back by the decoder.
ReadBackColor ==
    /\ encoded.codec = "serialize_option_color"
    /\ encoded.out.kind = "Ok"
    /\ text' = encoded.out.value
    /\ decoded' = [codec |-> "deserialize_option_color",
                   out |-> deserialize_option_color(encoded.out.value)]
    /\ UNCHANGED <<value, encoded, sessionVars, linkVars>>

NextColor ==
    \/ DeserializeOptionColor
    \/ SerializeOptionColor
    \/ ReadBackColor

SpecColor == InitColor /\ [][NextColor]_vars

\* C14: the color decoder returns a channel triple only for a text of
\* exactly six hex digits, each channel the value of its two digits; it
\* returns no value for an empty or blank text, and an InvalidColor error
\* naming the text for every other text: another length, a character that is
\* no hex digit, a sign, a character outside ASCII.  It never aborts.
C14_ColorDecoder ==
    decoded.codec = "deserialize_option_color" =>
        LET s == trim(text) IN
        IF s = <<>> THEN decoded.out = Ok(None)
        ELSE IF Len(s) = 6 /\ \A i \in 1..6 : IsHexDigit(s[i])
          THEN decoded.out =
                 Ok(Some(RGB8(HexValue(s[1]) * 16 + HexValue(s[2]),
                              HexValue(s[3]) * 16 + HexValue(s[4]),
                              HexValue(s[5]) * 16 + HexValue(s[6]))))
        ELSE decoded.out = Err(DeCustom(InvalidColor(s)))

\* C15: the color encoder writes a present color as six uppercase hex
\* digits, two for each channel, and the decoder reads that text back as the
\* same color; an absent color is written as the empty field, which is read
\* back as absent.
C15_ColorRoundTrip ==
    /\ encoded.codec = "serialize_option_color" =>
          /\ encoded.out.kind = "Ok"
          /\ value.some =>
                /\ Len(encoded.out.value) = 6
                /\ \A i \in 1..6 : encoded.out.value[i] \in (48..57) \cup (65..70)
                /\ HexValue(encoded.out.value[1]) * 16 + HexValue(encoded.out.value[2])
                      = value.value.r
                /\ HexValue(encoded.out.value[3]) * 16 + HexValue(encoded.out.value[4])
                      = value.value.g
                /\ HexValue(encoded.out.value[5]) * 16 + HexValue(encoded.out.value[6])
                      = value.value.b
          /\ ~value.some => encoded.out.value = <<>>
    /\ (encoded.codec = "serialize_option_color"
           /\ decoded.codec = "deserialize_option_color"
           /\ text = encoded.out.value) =>
          decoded.out = Ok(value)

\* The color (255, 0, 160) was written as FF00A0 and read back.
C15_Witness ==
    /\ value = Some(RGB8(255, 0, 160))
    /\ encoded.codec = "serialize_option_color"
    /\ encoded.out = Ok(<<70, 70, 48, 48, 65, 48>>)
    /\ text = encoded.out.value
    /\ decoded.out = Ok(value)

(***************************************************************************)
(* Enumerations decoded from the text of a field (structures/*.rs).        *)
(***************************************************************************)
Str2 == <<50>>
Str3 == <<51>>
Str4 == <<52>>

\* A unit variant of an enumeration, and its variant carrying a code.
Named(v) == [variant |-> v]

Other(i) == [variant |-> "Other", code |-> i]

PickupDropOffType_deserialize(s) ==
    Ok(CASE s = Str0 -> Named("Regular")
         [] s = Str1 -> Named("NotAvailable")
         [] s = Str2 -> Named("ArrangeByPhone")
         [] s = Str3 -> Named("CoordinateWithDriver")
         [] OTHER    -> Named("Regular"))

ContinuousPickupDropOff_deserialize(s) ==
    Ok(CASE s = Str0 -> Named("Continuous")
         [] s = Str1 -> Named("NotAvailable")
         [] s = Str2 -> Named("ArrangeByPhone")
         [] s = Str3 -> Named("CoordinateWithDriver")
         [] OTHER    -> Named("NotAvailable"))

\* A BikesAllowed decoder that rejects the codes it does not know.
BikesAllowed_deserialize_strict(s) ==
    CASE s = Str0 -> Ok(Named("NoBikeInfo"))
      [] s = Str1 -> Ok(Named("AtLeastOneBike"))
      [] s = Str2 -> Ok(Named("NoBikesAllowed"))
      [] OTHER    -> Err(DeError("unknown variant"))

BikesAllowed_deserialize(s) ==
    Ok(CASE s = Str0 -> Named("NoBikeInfo")
         [] s = Str1 -> Named("AtLeastOneBike")
         [] s = Str2 -> Named("NoBikesAllowed")
         [] OTHER    -> Named("NoBikeInfo"))

WheelchairBoardingAvailable_deserialize(s) ==
    Ok(CASE s = Str0 -> Named("InformationNotAvailable")
         [] s = Str1 -> Named("Available")
         [] s = Str2 -> Named("NotAvailable")
         [] OTHER    -> Named("InformationNotAvailable"))

StopLocationType_deserialize(s) ==
    Ok(CASE s = Str1 -> Named("StopArea")
         [] s = Str2 -> Named("StationEntrance")
         [] s = Str3 -> Named("GenericNode")
         [] s = Str4 -> Named("BoardingArea")
         [] OTHER    -> Named("StopPoint"))

TransferType_deserialize(s) ==
    Ok(CASE s = Str0 -> Named("Recommended")
         [] s = Str1 -> Named("Timed")
         [] s = Str2 -> Named("TimedMinimum")
         [] s = Str3 -> Named("NotPossible")
         [] OTHER    -> Named("Recommended"))

\* The Deserialize that serde derives for an enumeration of unit variants:
\* the field text is the variant name (its serde rename), and a text that
\* names no variant is an unknown-variant error.
derived_deserialize(variants, s) ==
    IF s \in DOMAIN variants THEN Ok(Named(variants[s]))
    ELSE Err(DeError("unknown variant"))

Direction_variants == (Str0 :> "Outbound") @@ (Str1 :> "Inbound")

Exception_variants == (Str1 :> "Added") @@ (Str2 :> "Deleted")

PaymentMethod_variants == (Str0 :> "Aboard") @@ (Str1 :> "PreBoarding")

ServiceType_variants == (Str0 :> "FrequencyBased") @@ (Str1 :> "ScheduleBased")

Direction_deserialize(s) == derived_deserialize(Direction_variants, s)

Exception_deserialize(s) == derived_deserialize(Exception_variants, s)

PaymentMethod_deserialize(s) == derived_deserialize(PaymentMethod_variants, s)

ServiceType_deserialize(s) == derived_deserialize(ServiceType_variants, s)

\* The enumerations with a hand-written decoder, and those with a derived one.
SoftEnums ==
    {"PickupDropOffType", "ContinuousPickupDropOff", "BikesAllowed",
     "WheelchairBoardingAvailable", "StopLocationType", "TransferType"}

DerivedEnums == {"Direction", "Exception", "PaymentMethod", "ServiceType"}

enum_deserialize(e, s) ==
    CASE e = "PickupDropOffType"           -> PickupDropOffType_deserialize(s)
      [] e = "ContinuousPickupDropOff"     -> ContinuousPickupDropOff_deserialize(s)
      [] e = "BikesAllowed"                -> BikesAllowed_deserialize(s)
      [] e = "WheelchairBoardingAvailable" -> WheelchairBoardingAvailable_deserialize(s)
      [] e = "StopLocationType"            -> StopLocationType_deserialize(s)
      [] e = "TransferType"                -> TransferType_deserialize(s)
      [] e = "Direction"                   -> Direction_deserialize(s)
      [] e = "Exception"                   -> Exception_deserialize(s)
      [] e = "PaymentMethod"               -> PaymentMethod_deserialize(s)
      [] e = "ServiceType"                 -> ServiceType_deserialize(s)

\* The struct fields of these enumerations: the type is the kind of the
\* field, and the default is the Default variant where the field is declared
\* with #[serde(default)].
EnumFields ==
    { Field(<<112>>, "RawStopTime.pickup_type", "PickupDropOffType", Some(Named("Regular"))),
      Field(<<100>>, "RawStopTime.drop_off_type", "PickupDropOffType", Some(Named("Regular"))),
      Field(<<99>>, "RawStopTime.continuous_pickup", "ContinuousPickupDropOff",
            Some(Named("NotAvailable"))),
      Field(<<111>>, "RawStopTime.continuous_drop_off", "ContinuousPickupDropOff",
            Some(Named("NotAvailable"))),
      Field(<<99>>, "Route.continuous_pickup", "ContinuousPickupDropOff",
            Some(Named("NotAvailable"))),
      Field(<<111>>, "Route.continuous_drop_off", "ContinuousPickupDropOff",
            Some(Named("NotAvailable"))),
      Field(<<119>>, "RawTrip.wheelchair_accessible", "WheelchairBoardingAvailable",
            Some(Named("InformationNotAvailable"))),
      Field(<<98>>, "RawTrip.bikes_allowed", "BikesAllowed", Some(Named("NoBikeInfo"))),
      Field(<<108>>, "Stop.location_type", "StopLocationType", Some(Named("StopPoint"))),
      Field(<<119>>, "Stop.wheelchair_boarding", "WheelchairBoardingAvailable",
            Some(Named("InformationNotAvailable"))),
      Field(<<120>>, "Transfer.transfer_type", "TransferType", None),
      Field(<<101>>, "CalendarDate.exception_type", "Exception", None),
      Field(<<121>>, "FareAttribute.payment_method", "PaymentMethod", None),
      Field(<<102>>, "Frequency.exact_times", "ServiceType", Some(Named("FrequencyBased"))) }

MaxCodeLen == 2

\* Field texts: the digits 0 to 5, x and the space, up to MaxCodeLen long.
CodeAlphabet == (48..53) \cup {120, 32}

CodeTexts == SeqsUpTo(CodeAlphabet, MaxCodeLen)

InitEnum ==
    /\ SessionIdle
    /\ LinkIdle
    /\ text \in CodeTexts
    /\ value = FALSE
    /\ decoded = NotApplied
    /\ encoded = NotApplied

\* A field of a hand-written decoder is decoded from the text.
DecodeSoftEnum ==
    /\ \E e \in SoftEnums :
          decoded' = [codec |-> e, from |-> "text", out |-> enum_deserialize(e, text)]
    /\ UNCHANGED <<text, value, encoded, sessionVars, linkVars>>

\* A field of a derived decoder is decoded from the text.
DecodeDerivedEnum ==
    /\ \E e \in DerivedEnums :
          decoded' = [codec |-> e, from |-> "text", out |-> enum_deserialize(e, text)]
    /\ UNCHANGED <<text, value, encoded, sessionVars, linkVars>>

\* A record is finished whose table has no column for the field.
AbsentColumn ==
    /\ \E f \in EnumFields :
          LET r == finish_struct(<<f>>, EmptyMap) IN
          decoded' = [codec |-> f.kind, from |-> "absent", field |-> f.field,
                      out |-> IF r.kind = "Ok" THEN Ok(r.value[f.field]) ELSE r]
    /\ UNCHANGED <<text, value, encoded, sessionVars, linkVars>>

NextEnum ==
    \/ DecodeSoftEnum
    \/ DecodeDerivedEnum
    \/ AbsentColumn

SpecEnum == InitEnum /\ [][NextEnum]_vars

\* The codes each fail-soft enumeration recognizes, and its default variant.
SoftCodes(e) ==
    CASE e = "PickupDropOffType" ->
           (Str0 :> "Regular") @@ (Str1 :> "NotAvailable") @@ (Str2 :> "ArrangeByPhone")
             @@ (Str3 :> "CoordinateWithDriver")
      [] e = "ContinuousPickupDropOff" ->
           (Str0 :> "Continuous") @@ (Str1 :> "NotAvailable") @@ (Str2 :> "ArrangeByPhone")
             @@ (Str3 :> "CoordinateWithDriver")
      [] e = "BikesAllowed" ->
           (Str0 :> "NoBikeInfo") @@ (Str1 :> "AtLeastOneBike") @@ (Str2 :> "NoBikesAllowed")
      [] e = "WheelchairBoardingAvailable" ->
           (Str0 :> "InformationNotAvailable") @@ (Str1 :> "Available")
             @@ (Str2 :> "NotAvailable")
      [] e = "StopLocationType" ->
           (Str0 :> "StopPoint") @@ (Str1 :> "StopArea") @@ (Str2 :> "StationEntrance")
             @@ (Str3 :> "GenericNode") @@ (Str4 :> "BoardingArea")
      [] e = "TransferType" ->
           (Str0 :> "Recommended") @@ (Str1 :> "Timed") @@ (Str2 :> "TimedMinimum")
             @@ (Str3 :> "NotPossible")

SoftDefault(e) ==
    CASE e = "PickupDropOffType"           -> "Regular"
      [] e = "ContinuousPickupDropOff"     -> "NotAvailable"
      [] e = "BikesAllowed"                -> "NoBikeInfo"
      [] e = "WheelchairBoardingAvailable" -> "InformationNotAvailable"
      [] e = "StopLocationType"            -> "StopPoint"
      [] e = "TransferType"                -> "Recommended"

\* Decoding a text never fails: a recognized code gives its variant, any
\* other text the default variant.
SoftDecoding ==
    (decoded.codec \in SoftEnums /\ decoded.from = "text") =>
        decoded.out =
            Ok(Named(IF text \in DOMAIN SoftCodes(decoded.codec)
                       THEN SoftCodes(decoded.codec)[text]
                       ELSE SoftDefault(decoded.codec)))

\* C16 as stated: each fail-soft enumeration decodes every text without
\* error, a recognized code to its variant and any other text to the default
\* variant, and the field takes that same variant when its column is absent.
C16_FailSoft ==
    /\ SoftDecoding
    /\ (decoded.codec \in SoftEnums /\ decoded.from = "absent") =>
          decoded.out = Ok(Named(SoftDefault(decoded.codec)))

\* C16: each fail-soft enumeration decodes every text without error, a
\* recognized code to its variant and any other text to the default variant;
\* a field declared with a default takes that same variant when its column
\* is absent, and Transfer.transfer_type, declared without one, makes the
\* record fail with a missing-field error when its column is absent.
C16_FailSoftDeclaredDefaults ==
    /\ SoftDecoding
    /\ (decoded.codec \in SoftEnums /\ decoded.from = "absent") =>
          IF decoded.field = "Transfer.transfer_type"
            THEN decoded.out = Err(DeError("missing field"))
            ELSE decoded.out = Ok(Named(SoftDefault(decoded.codec)))

\* The unknown code 5 was decoded as BikesAllowed and gave NoBikeInfo.
C16_Witness ==
    /\ text = <<53>>
    /\ decoded.codec = "BikesAllowed"
    /\ decoded.from = "text"
    /\ decoded.out = Ok(Named("NoBikeInfo"))

\* C17: decoding an unrecognized code for Direction, Exception,
\* PaymentMethod or ServiceType gives a default variant and no decode error.
C17_DerivedFailSoft ==
    (decoded.codec \in DerivedEnums /\ decoded.from = "text"
        /\ text # <<>> /\ \A i \in DOMAIN text : IsDigit(text[i])) =>
        decoded.out.kind = "Ok"

(***************************************************************************)
(* Enumerations decoded from a 16-bit code: PathwayMode (pathways.rs),     *)
(* Transfers (fare_attributes.rs) and RouteType (routes.rs).               *)
(***************************************************************************)
MaxCode == 65535

serialize_u16(n) == Ok(DecimalText(n))

\* A PathwayMode decoder that takes an unknown code for a walkway.
PathwayMode_deserialize_closed(s) ==
    LET i == parse_u16(s) IN
    IF i.kind = "Err" THEN i
    ELSE Ok(CASE i.value = 1 -> Named("Walkway")
              [] i.value = 2 -> Named("Stairs")
              [] i.value = 3 -> Named("Travelator")
              [] i.value = 4 -> Named("Escalator")
              [] i.value = 5 -> Named("Elevator")
              [] i.value = 6 -> Named("FareGate")
              [] i.value = 7 -> Named("ExitGate")
              [] OTHER       -> Named("Walkway"))

PathwayMode_deserialize(s) ==
    LET i == parse_u16(s) IN
    IF i.kind = "Err" THEN i
    ELSE Ok(CASE i.value = 1 -> Named("Walkway")
              [] i.value = 2 -> Named("Stairs")
              [] i.value = 3 -> Named("Travelator")
              [] i.value = 4 -> Named("Escalator")
              [] i.value = 5 -> Named("Elevator")
              [] i.value = 6 -> Named("FareGate")
              [] i.value = 7 -> Named("ExitGate")
              [] OTHER       -> Other(i.value))

PathwayMode_serialize(mode) ==
    CASE mode = Named("Walkway")    -> serialize_u16(1)
      [] mode = Named("Stairs")     -> serialize_u16(2)
      [] mode = Named("Travelator") -> serialize_u16(3)
      [] mode = Named("Escalator")  -> serialize_u16(4)
      [] mode = Named("Elevator")   -> serialize_u16(5)
      [] mode = Named("FareGate")   -> serialize_u16(6)
      [] mode = Named("ExitGate")   -> serialize_u16(7)
      [] OTHER                      -> serialize_u16(mode.code)

\* Option::<u16>::deserialize: the empty field is None.
Transfers_deserialize(s) ==
    IF s = <<>> THEN Ok(Named("Unlimited"))
    ELSE LET i == parse_u16(s) IN
         IF i.kind = "Err" THEN i
         ELSE Ok(CASE i.value = 0 -> Named("NoTransfer")
                   [] i.value = 1 -> Named("UniqueTransfer")
                   [] i.value = 2 -> Named("TwoTransfers")
                   [] OTHER       -> Other(i.value))

\* serialize_none writes the empty field.
Transfers_serialize(transfers) ==
    CASE transfers = Named("NoTransfer")     -> serialize_u16(0)
      [] transfers = Named("UniqueTransfer") -> serialize_u16(1)
      [] transfers = Named("TwoTransfers")   -> serialize_u16(2)
      [] transfers = Named("Unlimited")      -> Ok(<<>>)
      [] OTHER                               -> serialize_u16(transfers.code)

\* Field texts that are no 16-bit code: the empty field, x, 65536 and -1.
NoCodeTexts == {<<>>, <<120>>, <<54, 53, 53, 51, 54>>, <<45, 49>>}

InitCode ==
    /\ SessionIdle
    /\ LinkIdle
    /\ \/ value \in 0..MaxCode /\ text = DecimalText(value)
       \/ value = 0 /\ text \in NoCodeTexts
    /\ decoded = NotApplied
    /\ encoded = NotApplied

InitOpenEnum == InitCode

DecodePathwayMode ==
    /\ decoded' = [codec |-> "PathwayMode", out |-> PathwayMode_deserialize(text)]
    /\ encoded' = NotApplied
    /\ UNCHANGED <<text, value, sessionVars, linkVars>>

DecodeTransfers ==
    /\ decoded' = [codec |-> "Transfers", out |-> Transfers_deserialize(text)]
    /\ encoded' = NotApplied
    /\ UNCHANGED <<text, value, sessionVars, linkVars>>

\* The decoded value is written back.
EncodePathwayMode ==
    /\ decoded.codec = "PathwayMode"
    /\ decoded.out.kind = "Ok"
    /\ encoded' = [codec |-> "PathwayMode", out |-> PathwayMode_serialize(decoded.out.value)]
    /\ UNCHANGED <<text, value, decoded, sessionVars, linkVars>>

EncodeTransfers ==
    /\ decoded.codec = "Transfers"
    /\ decoded.out.kind = "Ok"
    /\ encoded' = [codec |-> "Transfers", out |-> Transfers_serialize(decoded.out.value)]
    /\ UNCHANGED <<text, value, decoded, sessionVars, linkVars>>

NextOpenEnum ==
    \/ DecodePathwayMode
    \/ DecodeTransfers
    \/ EncodePathwayMode
    \/ EncodeTransfers

SpecOpenEnum == InitOpenEnum /\ [][NextOpenEnum]_vars

PathwayNames ==
    <<"Walkway", "Stairs", "Travelator", "Escalator", "Elevator", "FareGate", "ExitGate">>

TransfersNames == <<"NoTransfer", "UniqueTransfer", "TwoTransfers">>

IsCode == text = DecimalText(value)

\* C18: every 16-bit code decodes as PathwayMode and as Transfers without
\* error, a code outside the named ones to Other carrying the code, and
\* writing the decoded value back gives the code again; for Transfers the
\* empty field decodes to Unlimited and Unlimited is written as the empty
\* field.
C18_OpenEnums ==
    /\ (decoded.codec = "PathwayMode" /\ IsCode) =>
          /\ decoded.out = Ok(IF value \in 1..7 THEN Named(PathwayNames[value])
                              ELSE Other(value))
          /\ encoded.codec = "PathwayMode" => encoded.out = Ok(DecimalText(value))
    /\ (decoded.codec = "Transfers" /\ IsCode) =>
          /\ decoded.out = Ok(IF value \in 0..2 THEN Named(TransfersNames[value + 1])
                              ELSE Other(value))
          /\ encoded.codec = "Transfers" => encoded.out = Ok(DecimalText(value))
    /\ (decoded.codec = "Transfers" /\ text = <<>>) =>
          /\ decoded.out = Ok(Named("Unlimited"))
          /\ encoded.codec = "Transfers" => encoded.out = Ok(<<>>)

\* The code 65535 was decoded as PathwayMode to Other(65535) and written
\* back as 65535.
C18_Witness ==
    /\ value = MaxCode
    /\ IsCode
    /\ decoded = [codec |-> "PathwayMode", out |-> Ok(Other(MaxCode))]
    /\ encoded = [codec |-> "PathwayMode", out |-> Ok(<<54, 53, 53, 51, 53>>)]

\* A RouteType decoder that takes the codes 8..99 by their hundreds, as the
\* legacy code 0.
RouteType_deserialize_by_hundreds(s) ==
    LET parsed == parse_u16(s) IN
    IF parsed.kind = "Err" THEN parsed ELSE
    LET i == parsed.value
        hundreds == i \div 100
    IN  Ok(CASE hundreds = 0 /\ i \notin 1..7 -> Named("Tramway")
             [] hundreds = 9                  -> Named("Tramway")
             [] i = 1 \/ hundreds = 4         -> Named("Subway")
             [] i = 2 \/ hundreds = 1         -> Named("Rail")
             [] i = 3 \/ hundreds \in {7, 8}  -> Named("Bus")
             [] i = 4 \/ hundreds \in {10, 12} -> Named("Ferry")
             [] i = 5                         -> Named("CableCar")
             [] i = 6 \/ hundreds = 13        -> Named("Gondola")
             [] i = 7 \/ hundreds = 14        -> Named("Funicular")
             [] hundreds = 2                  -> Named("Coach")
             [] hundreds = 11                 -> Named("Air")
             [] hundreds = 15                 -> Named("Taxi")
             [] OTHER                         -> Other(i))

\* The match on (i, hundreds): the arms are tried in order and the first
\* whose pattern holds gives the mode.
RouteType_deserialize(s) ==
    LET parsed == parse_u16(s) IN
    IF parsed.kind = "Err" THEN parsed ELSE
    LET i == parsed.value
        hundreds == i \div 100
    IN  Ok(IF i = 0 \/ hundreds = 9 THEN Named("Tramway")
           ELSE IF i = 1 \/ hundreds = 4 THEN Named("Subway")
           ELSE IF i = 2 \/ hundreds = 1 THEN Named("Rail")
           ELSE IF i = 3 \/ hundreds = 7 \/ hundreds = 8 THEN Named("Bus")
           ELSE IF i = 4 \/ hundreds = 10 \/ hundreds = 12 THEN Named("Ferry")
           ELSE IF i = 5 THEN Named("CableCar")
           ELSE IF i = 6 \/ hundreds = 13 THEN Named("Gondola")
           ELSE IF i = 7 \/ hundreds = 14 THEN Named("Funicular")
           ELSE IF hundreds = 2 THEN Named("Coach")
           ELSE IF hundreds = 11 THEN Named("Air")
           ELSE IF hundreds = 15 THEN Named("Taxi")
           ELSE Other(i))

\* A RouteType encoder that writes the extended modes as the legacy bus.
RouteType_serialize_legacy(route_type) ==
    CASE route_type = Named("Tramway")   -> serialize_u16(0)
      [] route_type = Named("Subway")    -> serialize_u16(1)
      [] route_type = Named("Rail")      -> serialize_u16(2)
      [] route_type = Named("Bus")       -> serialize_u16(3)
      [] route_type = Named("Ferry")     -> serialize_u16(4)
      [] route_type = Named("CableCar")  -> serialize_u16(5)
      [] route_type = Named("Gondola")   -> serialize_u16(6)
      [] route_type = Named("Funicular") -> serialize_u16(7)
      [] route_type = Named("Coach")     -> serialize_u16(3)
      [] route_type = Named("Air")       -> serialize_u16(3)
      [] route_type = Named("Taxi")      -> serialize_u16(3)
      [] OTHER                           -> serialize_u16(route_type.code)

RouteType_serialize(route_type) ==
    CASE route_type = Named("Tramway")   -> serialize_u16(0)
      [] route_type = Named("Subway")    -> serialize_u16(1)
      [] route_type = Named("Rail")      -> serialize_u16(2)
      [] route_type = Named("Bus")       -> serialize_u16(3)
      [] route_type = Named("Ferry")     -> serialize_u16(4)
      [] route_type = Named("CableCar")  -> serialize_u16(5)
      [] route_type = Named("Gondola")   -> serialize_u16(6)
      [] route_type = Named("Funicular") -> serialize_u16(7)
      [] route_type = Named("Coach")     -> serialize_u16(200)
      [] route_type = Named("Air")       -> serialize_u16(1100)
      [] route_type = Named("Taxi")      -> serialize_u16(1500)
      [] OTHER                           -> serialize_u16(route_type.code)

InitRouteType == InitCode

DecodeRouteType ==
    /\ decoded' = [codec |-> "RouteType", out |-> RouteType_deserialize(text)]
    /\ encoded' = NotApplied
    /\ UNCHANGED <<text, value, sessionVars, linkVars>>

\* The decoded mode is written back.
EncodeRouteType ==
    /\ decoded.codec = "RouteType"
    /\ decoded.out.kind = "Ok"
    /\ encoded' = [codec |-> "RouteType", out |-> RouteType_serialize(decoded.out.value)]
    /\ UNCHANGED <<text, value, decoded, sessionVars, linkVars>>

\* The text written back is decoded again.
RedecodeRouteType ==
    /\ encoded.codec = "RouteType"
    /\ encoded.out.kind = "Ok"
    /\ encoded' = [encoded EXCEPT !.codec = "RouteType again",
                                  !.out = RouteType_deserialize(encoded.out.value)]
    /\ UNCHANGED <<text, value, decoded, sessionVars, linkVars>>

NextRouteType ==
    \/ DecodeRouteType
    \/ EncodeRouteType
    \/ RedecodeRouteType

SpecRouteType == InitRouteType /\ [][NextRouteType]_vars

LegacyModes ==
    <<"Tramway", "Subway", "Rail", "Bus", "Ferry", "CableCar", "Gondola", "Funicular">>

\* The mode of each mapped band of a hundred codes.
BandModes ==
    (1 :> "Rail") @@ (2 :> "Coach") @@ (4 :> "Subway") @@ (7 :> "Bus") @@ (8 :> "Bus")
      @@ (9 :> "Tramway") @@ (10 :> "Ferry") @@ (11 :> "Air") @@ (12 :> "Ferry")
      @@ (13 :> "Gondola") @@ (14 :> "Funicular") @@ (15 :> "Taxi")

IsLegacy(i) == i \in 0..7

IsBanded(i) == (i \div 100) \in DOMAIN BandModes

Unmapped == (8..99) \cup (300..399) \cup (500..699) \cup (1600..MaxCode)

\* C19: every 16-bit code decodes as RouteType by exactly one rule: the
\* legacy codes 0..7 to their modes, a code of a mapped band to the mode of
\* its hundreds, and every other code (8..99, 300..399, 500..699, 1600 and
\* above) to Other carrying the code; no code is both legacy and banded.
C19_RouteTypeDecoding ==
    (decoded.codec = "RouteType" /\ IsCode) =>
        /\ ~(IsLegacy(value) /\ IsBanded(value))
        /\ (value \in Unmapped) <=> (~IsLegacy(value) /\ ~IsBanded(value))
        /\ IsLegacy(value) => decoded.out = Ok(Named(LegacyModes[value + 1]))
        /\ IsBanded(value) => decoded.out = Ok(Named(BandModes[value \div 100]))
        /\ value \in Unmapped => decoded.out = Ok(Other(value))

\* The code 1299 was decoded to Ferry, by its band.
C19_Witness ==
    /\ value = 1299
    /\ IsCode
    /\ decoded = [codec |-> "RouteType", out |-> Ok(Named("Ferry"))]

\* The code a mode is written as.
CodeOfMode(route_type) ==
    IF route_type.variant = "Other" THEN route_type.code
    ELSE IF route_type.variant = "Coach" THEN 200
    ELSE IF route_type.variant = "Air" THEN 1100
    ELSE IF route_type.variant = "Taxi" THEN 1500
    ELSE CHOOSE c \in 0..7 : LegacyModes[c + 1] = route_type.variant

\* C20: a decoded mode is written back as its legacy code 0..7, Coach, Air
\* and Taxi as 200, 1100 and 1500, Other(i) as i; and decoding what was
\* written gives the same mode again, also when the code written differs
\* from the code read.
C20_RouteTypeStable ==
    /\ (decoded.codec = "RouteType" /\ IsCode /\ encoded.codec = "RouteType") =>
          encoded.out = Ok(DecimalText(CodeOfMode(decoded.out.value)))
    /\ (decoded.codec = "RouteType" /\ IsCode /\ encoded.codec = "RouteType again") =>
          encoded.out = decoded.out

\* The code 1199 was decoded to Air, written back as 1100 and decoded to
\* Air again.
C20_Witness ==
    /\ value = 1199
    /\ IsCode
    /\ decoded = [codec |-> "RouteType", out |-> Ok(Named("Air"))]
    /\ encoded.codec = "RouteType again"
    /\ encoded.out = Ok(Named("Air"))

(***************************************************************************)
(* Mappings built from a decoded table: calendar_map and                   *)
(* calendar_dates_map (lib.rs), and to_map on the records of the tables    *)
(* whose record type has an identifier.  The table read is given by its    *)
(* outcome; a CalendarDate is [service_id, date], a Calendar [id, monday], *)
(* an Agency [id, agency_name], an Attribution [id, organization_name].    *)
(***************************************************************************)
\* A grouping loop that puts each exception in front of its group.
RECURSIVE calendar_dates_fold_prepending(_, _, _)
calendar_dates_fold_prepending(dates, calendar_dates, i) ==
    IF i > Len(calendar_dates) THEN dates
    ELSE LET calendar_date == calendar_dates[i]
             k == calendar_date.service_id
         IN  calendar_dates_fold_prepending(
               IF k \in DOMAIN dates
                 THEN [dates EXCEPT ![k] = <<calendar_date>> \o @]
                 ELSE dates @@ (k :> <<calendar_date>>),
               calendar_dates, i + 1)

\* The loop of calendar_dates_map from row i on: the group of the service
\* id is created empty when the mapping has none, and the row is pushed.
RECURSIVE calendar_dates_fold(_, _, _)
calendar_dates_fold(dates, calendar_dates, i) ==
    IF i > Len(calendar_dates) THEN dates
    ELSE LET calendar_date == calendar_dates[i]
             k == calendar_date.service_id
             entry == IF k \in DOMAIN dates THEN dates ELSE dates @@ (k :> <<>>)
         IN  calendar_dates_fold([entry EXCEPT ![k] = Append(@, calendar_date)],
                                 calendar_dates, i + 1)

\* GtfsReader::calendar_dates_map on the outcome of read_gtfs.
calendar_dates_map(read) ==
    IF read.kind # "Ok" THEN read
    ELSE Ok(calendar_dates_fold(EmptyMap, read.value, 1))

\* GtfsReader::calendar_map on the outcome of read_gtfs.
calendar_map(read) ==
    IF read.kind # "Ok" THEN read ELSE Ok(to_map(read.value))

MaxMapRows == 3

CalendarDateRow == [service_id : {"c1", "c2"}, date : 1..2]

CalendarRow == [id : {"c1", "c2"}, monday : BOOLEAN]

AgencyRow == [id : {None, Some("a1")}, agency_name : {"x", "y"}]

AttributionRow == [id : {None, Some("a1")}, organization_name : {"x", "y"}]

\* The outcomes of reading a table of the given rows: the records, a read
\* error, or the abort of read_gtfs.
ReadsOf(name, Row) ==
    {[table |-> name, read |-> r] :
        r \in {Ok(rows) : rows \in SeqsUpTo(Row, MaxMapRows)}
                \cup {TableReadFailed(name), Panic}}

InitMap ==
    /\ SessionIdle
    /\ LinkIdle
    /\ text = <<>>
    /\ \/ value \in ReadsOf("calendar_dates.txt", CalendarDateRow)
       \/ value \in ReadsOf("calendar.txt", CalendarRow)
       \/ value \in ReadsOf("agency.txt", AgencyRow)
       \/ value \in ReadsOf("attributions.txt", AttributionRow)
    /\ decoded = NotApplied
    /\ encoded = NotApplied

\* calendar_dates_map()
CalendarDatesMap ==
    /\ value.table = "calendar_dates.txt"
    /\ linked' = [op |-> "calendar_dates_map", out |-> calendar_dates_map(value.read)]
    /\ UNCHANGED <<raw_trips, raw_stop_times, stops, sessionVars, codecVars>>

\* calendar_map()
CalendarMap ==
    /\ value.table = "calendar.txt"
    /\ linked' = [op |-> "calendar_map", out |-> calendar_map(value.read)]
    /\ UNCHANGED <<raw_trips, raw_stop_times, stops, sessionVars, codecVars>>

\* to_map on the decoded records of a table with optional identifiers.
ToMap ==
    /\ value.table \in {"agency.txt", "attributions.txt"}
    /\ value.read.kind = "Ok"
    /\ linked' = [op |-> "to_map", out |-> Ok(to_map(value.read.value))]
    /\ UNCHANGED <<raw_trips, raw_stop_times, stops, sessionVars, codecVars>>

NextMap ==
    \/ CalendarDatesMap
    \/ CalendarMap
    \/ ToMap

SpecMap == InitMap /\ [][NextMap]_vars

\* The positions of the rows of service k, in table order.
RowsOfService(rows, k) == {i \in DOMAIN rows : rows[i].service_id = k}

\* C21: calendar_dates_map partitions the decoded rows by service id: its
\* keys are exactly the service ids of the table, no group is empty, every
\* exception under key k has service_id k, every row is in exactly one group
\* exactly once, and the rows of a group are in table order.
C21_CalendarDatesPartition ==
    (linked.op = "calendar_dates_map" /\ value.read.kind = "Ok") =>
        LET rows == value.read.value
            IsOf(k) == LET Test(r) == r.service_id = k IN SelectSeq(rows, Test)
        IN  /\ linked.out.kind = "Ok"
            /\ DOMAIN linked.out.value = {rows[i].service_id : i \in DOMAIN rows}
            /\ \A k \in DOMAIN linked.out.value :
                  /\ linked.out.value[k] # <<>>
                  /\ \A j \in DOMAIN linked.out.value[k] :
                        linked.out.value[k][j].service_id = k
                  /\ Len(linked.out.value[k]) = Cardinality(RowsOfService(rows, k))
                  /\ linked.out.value[k] = IsOf(k)

\* Three exceptions of two services, given interleaved and with different
\* dates, were grouped.
C21_Witness ==
    /\ linked.op = "calendar_dates_map"
    /\ value.read = Ok(<< [service_id |-> "c1", date |-> 2],
                          [service_id |-> "c2", date |-> 1],
                          [service_id |-> "c1", date |-> 1] >>)
    /\ linked.out.kind = "Ok"
    /\ Len(linked.out.value["c1"]) = 2
    /\ linked.out.value["c1"][1].date = 2

\* C22: a mapping built by to_map has exactly one entry for each distinct
\* identifier of the input, the key of an entry is the id() of its record,
\* a record whose optional identifier is absent is under the empty string,
\* and of several records with one key the mapping has the last in input
\* order.
C22_ToMap ==
    (linked.op \in {"calendar_map", "to_map"} /\ value.read.kind = "Ok") =>
        LET rows == value.read.value
            key(r) == IF value.table = "calendar.txt" THEN r.id
                      ELSE IF r.id = None THEN "" ELSE r.id.value
        IN  /\ linked.out.kind = "Ok"
            /\ DOMAIN linked.out.value = {key(rows[i]) : i \in DOMAIN rows}
            /\ \A k \in DOMAIN linked.out.value :
                  /\ key(linked.out.value[k]) = k
                  /\ \E i \in DOMAIN rows :
                        /\ linked.out.value[k] = rows[i]
                        /\ key(rows[i]) = k
                        /\ \A j \in DOMAIN rows : key(rows[j]) = k => j <= i

\* Two agencies without identifier and one with were mapped: the second of
\* the two is under the empty string.
C22_Witness ==
    /\ linked.op = "to_map"
    /\ value.table = "agency.txt"
    /\ value.read = Ok(<< [id |-> None, agency_name |-> "x"],
                          [id |-> Some("a1"), agency_name |-> "x"],
                          [id |-> None, agency_name |-> "y"] >>)
    /\ linked.out.kind = "Ok"
    /\ DOMAIN linked.out.value = {"", "a1"}
    /\ linked.out.value[""].agency_name = "y"

(***************************************************************************)
(* The color fields of a route (structures/routes.rs): both are decoded by *)
(* deserialize_option_color and declare a default function.                *)
(***************************************************************************)
black_rgb == Some(RGB8(0, 0, 0))

white_rgb == Some(RGB8(255, 255, 255))

\* Route::route_color and Route::route_text_color, under the columns c and t.
RouteColorFields ==
    { Field(<<99>>, "route_color", "OptionColor", Some(white_rgb)),
      Field(<<116>>, "route_text_color", "OptionColor", Some(black_rgb)) }

\* The value the derived visit_map gives a color field of a route: with the
\* column in the table, what deserialize_option_color makes of the field
\* text (its error is the error of the row); without it, the default.
Route_color(f, column_present, s) ==
    IF ~column_present
      THEN LET r == finish_struct(<<f>>, EmptyMap)
           IN  IF r.kind = "Ok" THEN Ok(r.value[f.field]) ELSE r
    ELSE LET got == deserialize_option_color(s) IN
         IF got.kind # "Ok" THEN got
         ELSE LET r == finish_struct(<<f>>, (f.field :> got.value))
              IN  IF r.kind = "Ok" THEN Ok(r.value[f.field]) ELSE r

InitRoute ==
    /\ SessionIdle
    /\ LinkIdle
    /\ text \in ColorTexts
    /\ value = FALSE
    /\ decoded = NotApplied
    /\ encoded = NotApplied

\* A route row is decoded whose table has the column, the field being text.
DecodeRouteColor ==
    /\ \E f \in RouteColorFields :
          decoded' = [codec |-> "Route", field |-> f.field, from |-> "text",
                      out |-> Route_color(f, TRUE, text)]
    /\ UNCHANGED <<text, value, encoded, sessionVars, linkVars>>

\* A route row is decoded whose table does not have the column.
OmittedRouteColor ==
    /\ \E f \in RouteColorFields :
          decoded' = [codec |-> "Route", field |-> f.field, from |-> "omitted",
                      out |-> Route_color(f, FALSE, <<>>)]
    /\ UNCHANGED <<text, value, encoded, sessionVars, linkVars>>

NextRoute ==
    \/ DecodeRouteColor
    \/ OmittedRouteColor

SpecRoute == InitRoute /\ [][NextRoute]_vars

\* C23: a route row decodes with route_color white (FFFFFF) and with
\* route_text_color black (000000), both when the column is omitted and when
\* the field is left empty.
C23_RouteColorDefaults ==
    (decoded.codec = "Route" /\ (decoded.from = "omitted" \/ text = <<>>)) =>
        decoded.out = Ok(Some(IF decoded.field = "route_color"
                                THEN RGB8(255, 255, 255)
                                ELSE RGB8(0, 0, 0)))

(***************************************************************************)
(* The session keeps no decoded state (lib.rs: GtfsReader has the archive  *)
(* and the index only).                                                    *)
(***************************************************************************)
\* What the call c returns as the first call on a session freshly opened on
\* the archive.
FreshCall(c) ==
    LET fresh == from_reader(archive, corrupt).value IN
    CASE c.op = "read_gtfs" -> read_gtfs(fresh, archive, c.name, Schema(c.name))
      [] c.op = "custom"    -> custom(fresh, archive, c.name, c.shape)
      [] c.op = "trips"     -> trips_accessor(fresh, archive)

LinkedStopTimes ==
    {p \in (DOMAIN linked.out.value) \X (1..MaxStopTimes) :
        p[2] \in DOMAIN linked.out.value[p[1]].stop_times}

StopTimeAt(p) == linked.out.value[p[1]].stop_times[p[2]]

\* C25: on a successful linking pass every raw stop_time row gives exactly
\* one Stop Time, in the sequence of the trip of its trip_id and in no
\* other: there are as many Stop Times as rows, and a trip has as many Stop
\* Times of a stop and stop_sequence as the table has rows of that trip,
\* stop and stop_sequence.  Each Stop Time references a stop of the stops
\* table, and Stop Times of one stop_id reference one shared Stop.
C25_EveryRowLinkedOnce ==
    (linked.op = "trips" /\ linked.out.kind = "Ok") =>
        LET rows == raw_stop_times.value
            out == linked.out.value
        IN  /\ Cardinality(LinkedStopTimes) = Len(rows)
            /\ \A i \in DOMAIN rows : rows[i].trip_id \in DOMAIN out
            /\ \A k \in DOMAIN out :
                 \A sid \in {rows[i].stop_id : i \in DOMAIN rows}, q \in StopSequences :
                    Cardinality({j \in DOMAIN out[k].stop_times :
                                    /\ out[k].stop_times[j].stop.id = sid
                                    /\ out[k].stop_times[j].stop_sequence = q})
                    = Cardinality({i \in DOMAIN rows :
                                    /\ rows[i].trip_id = k
                                    /\ rows[i].stop_id = sid
                                    /\ rows[i].stop_sequence = q})
            /\ \A p \in LinkedStopTimes :
                 \E i \in DOMAIN stops.value :
                    StopTimeAt(p).stop = Arc_new(stops.value[i], i)
            /\ \A p1, p2 \in LinkedStopTimes :
                 StopTimeAt(p1).stop.id = StopTimeAt(p2).stop.id =>
                    StopTimeAt(p1).stop = StopTimeAt(p2).stop

\* Three rows were linked: two of trip t1 and one of trip t2, two of them at
\* the stop s1 with different stop_sequence.
C25_Witness ==
    /\ linked.op = "trips"
    /\ linked.out.kind = "Ok"
    /\ Len(raw_stop_times.value) = 3
    /\ raw_stop_times.value[1] = [trip_id |-> "t1", stop_id |-> "s1", stop_sequence |-> 1]
    /\ raw_stop_times.value[2] = [trip_id |-> "t2", stop_id |-> "s1", stop_sequence |-> 0]
    /\ raw_stop_times.value[3] = [trip_id |-> "t1", stop_id |-> "s2", stop_sequence |-> 0]
    /\ Len(linked.out.value["t1"].stop_times) = 2
    /\ Len(linked.out.value["t2"].stop_times) = 1
    /\ linked.out.value["t2"].stop_times[1].stop = linked.out.value["t1"].stop_times[2].stop

\* C26: on a successful linking pass the keys of the result are exactly the
\* distinct ids of the raw trips; each key maps to a Trip with that id and
\* with the scalar fields of the raw trip of that id (of the last one when
\* the id repeats); a trip no stop_time names is there with an empty
\* sequence.
C26_TripsCarriedOver ==
    (linked.op = "trips" /\ linked.out.kind = "Ok") =>
        LET rts == raw_trips.value
            rows == raw_stop_times.value
            out == linked.out.value
        IN  /\ DOMAIN out = {rts[i].id : i \in DOMAIN rts}
            /\ \A k \in DOMAIN out :
                  /\ out[k].id = k
                  /\ \E i \in DOMAIN rts :
                        /\ rts[i].id = k
                        /\ \A j \in DOMAIN rts : rts[j].id = k => j <= i
                        /\ out[k].route_id = rts[i].route_id
                  /\ (\A i \in DOMAIN rows : rows[i].trip_id # k) =>
                        out[k].stop_times = <<>>

\* The trips t1 and t2 were linked with stop_times of t1 only.
C26_Witness ==
    /\ linked.op = "trips"
    /\ linked.out.kind = "Ok"
    /\ Len(raw_trips.value) = 2
    /\ raw_trips.value[2] = [id |-> "t2", route_id |-> "r2"]
    /\ Len(raw_stop_times.value) = 2
    /\ \A i \in 1..2 : raw_stop_times.value[i].trip_id = "t1"
    /\ DOMAIN linked.out.value = {"t1", "t2"}
    /\ linked.out.value["t2"] = [id |-> "t2", route_id |-> "r2", stop_times |-> <<>>]

(***************************************************************************)
(* The order in which trips() fails.                                       *)
(***************************************************************************)
\* The read of one table on the session, by itself.
TableRead(n) == read_gtfs(file_mappings, archive, n, Schema(n))

\* The rows of the decoded stop_times table whose trip, or whose stop, is
\* in no row of the decoded trips, respectively stops, table.
Offending ==
    LET rows == TableRead("stop_times.txt").result.value
        rts == TableRead("trips.txt").result.value
        sts == TableRead("stops.txt").result.value
    IN  {i \in DOMAIN rows :
            \/ rows[i].trip_id \notin {rts[j].id : j \in DOMAIN rts}
            \/ rows[i].stop_id \notin {sts[j].id : j \in DOMAIN sts}}

\* C27: trips() reads trips.txt, then stop_times.txt, then stops.txt, and
\* ends with the outcome of the first of them that gives no records, having
\* read no table after it.  With all three decoded, the first stop_time row
\* in table order that names an unknown trip or stop decides the
\* ReferenceError: it names the trip id when the trip is unknown, also when
\* the stop is unknown too, and the stop id otherwise.
C27_FirstFailure ==
    call.op = "trips" =>
        LET r1 == TableRead("trips.txt")
            r2 == TableRead("stop_times.txt")
            r3 == TableRead("stops.txt")
        IN  IF r1.result.kind # "Ok"
              THEN result = r1.result /\ reads = r1.reads
            ELSE IF r2.result.kind # "Ok"
              THEN result = r2.result /\ reads = r1.reads \o r2.reads
            ELSE /\ reads = r1.reads \o r2.reads \o r3.reads
                 /\ IF r3.result.kind # "Ok" THEN result = r3.result
                    ELSE IF Offending = {} THEN result.kind = "Ok"
                    ELSE LET row == r2.result.value[Min(Offending)]
                             known == {r1.result.value[j].id : j \in DOMAIN r1.result.value}
                         IN  result = Err(ReferenceError(
                                 IF row.trip_id \notin known THEN row.trip_id
                                 ELSE row.stop_id))

\* trips() was called on tables whose only stop_time row names an unknown
\* trip and an unknown stop, and returned the trip id.
C27_Witness ==
    /\ call.op = "trips"
    /\ TableRead("trips.txt").result.kind = "Ok"
    /\ TableRead("stops.txt").result.kind = "Ok"
    /\ TableRead("stop_times.txt").result =
          Ok(<<[trip_id |-> <<120>>, stop_id |-> <<48>>, stop_sequence |-> 0]>>)
    /\ result = Err(ReferenceError(<<120>>))

(***************************************************************************)
(* The two linking entry points.                                           *)
(***************************************************************************)
\* C28: on the same raw trips, raw stop_times and stop mapping,
\* Trip::create_trips succeeds exactly when the linking pass of
\* GtfsReader::trips does, fails with the same ReferenceError otherwise, and
\* on success returns exactly the values of the trips mapping, one Trip for
\* each key, with the same scalar fields and the same ordered stop-time
\* sequences.
C28_EntryPointsAgree ==
    (linked.op \in {"trips", "create_trips"} /\ TablesDecoded) =>
        LET byMap == IF linked.op = "trips" THEN linked.out
                     ELSE trips(raw_trips, raw_stop_times, stops)
            byList == IF linked.op = "create_trips" THEN linked.out
                      ELSE create_trips(raw_trips.value, raw_stop_times.value,
                                        stops_by_id(stops.value))
        IN  /\ byList.kind = byMap.kind
            /\ byMap.kind = "Err" =>
                  /\ byMap.error.type = "ReferenceError"
                  /\ byList = byMap
            /\ byMap.kind = "Ok" =>
                  /\ byList.value = {byMap.value[k] : k \in DOMAIN byMap.value}
                  /\ Cardinality(byList.value) = Cardinality(DOMAIN byMap.value)

\* create_trips returned two trips, one of them with two stop-times given
\* out of order.
C28_Witness ==
    /\ linked.op = "create_trips"
    /\ linked.out.kind = "Ok"
    /\ Cardinality(linked.out.value) = 2
    /\ Len(raw_stop_times.value) = 3
    /\ raw_stop_times.value[1] = [trip_id |-> "t1", stop_id |-> "s2", stop_sequence |-> 1]
    /\ raw_stop_times.value[2] = [trip_id |-> "t2", stop_id |-> "s1", stop_sequence |-> 1]
    /\ raw_stop_times.value[3] = [trip_id |-> "t1", stop_id |-> "s1", stop_sequence |-> 0]
    /\ \E t \in linked.out.value :
          /\ t.id = "t1"
          /\ Len(t.stop_times) = 2
          /\ t.stop_times[1].stop.id = "s1"

(***************************************************************************)
(* The optional and the required clock-time decoder, and the arithmetic of *)
(* parse_time.                                                             *)
(***************************************************************************)
\* A result of the required decoder as the optional decoder gives it.
AsPresent(r) == IF r.kind = "Ok" THEN Ok(Some(r.value)) ELSE r

\* C29: on every text that is not empty, a blank text included, the
\* optional time decoder gives what the required one gives, the seconds as a
\* present value or the same error; on the empty text the optional decoder
\* gives no value and the required one an InvalidTime error.
C29_OptionalTimeAgrees ==
    /\ (decoded.codec = "deserialize_option_time" /\ text # <<>>) =>
          decoded.out = AsPresent(deserialize_time(text, decoded.checks))
    /\ (decoded.codec = "deserialize_time" /\ text # <<>>) =>
          AsPresent(decoded.out) = deserialize_option_time(text, decoded.checks)
    /\ (decoded.codec = "deserialize_option_time" /\ text = <<>>) =>
          decoded.out = Ok(None)
    /\ (decoded.codec = "deserialize_time" /\ text = <<>>) =>
          decoded.out = Err(DeCustom(InvalidTime(<<>>)))

\* The optional decoder rejected the blank text, naming it.
C29_Witness ==
    /\ text = <<32>>
    /\ decoded.codec = "deserialize_option_time"
    /\ decoded.out = Err(DeCustom(InvalidTime(<<32>>)))

\* C30: decoding a text of three parts that are unsigned 64-bit integers
\* gives hours * 3600 + minutes * 60 + seconds exactly, or fails with an
\* error: never a value wrapped modulo 2^64, never an abort.
C30_NoOverflow ==
    (decoded.codec = "deserialize_time" /\ Len(PartsOf(text)) = 3 /\ AllParse(PartsOf(text))) =>
        \/ decoded.out.kind = "Err"
        \/ /\ decoded.out.kind = "Ok"
           /\ decoded.out.value = TotalSeconds(PartsOf(text))

====
